---- MODULE Spec2Model ----
(***************************************************************************)
(* DMX fire controller (src/dmx_fire_controller.py): the ENTTEC DMX USB    *)
(* Pro frame decoder and channel store, the flame banks with their         *)
(* parameter smoothing, the universe multiplexer and the frame scheduler   *)
(* with its shutdown sequence.                                             *)
(*                                                                         *)
(* Numbers.  Bytes are integers 0..255.  The Python floats in [0,1] are    *)
(* modelled as exact decimal fractions of 255ths: the record [n, k] is the *)
(* value n / (255 * 10^k).  Every value the code computes from bytes with  *)
(* "/ 255.0" and "* 0.3" is of that form; IEEE rounding is not modelled.   *)
(* The clock time.time() is the integer variable now.                      *)
(***************************************************************************)
EXTENDS Integers, Sequences, FiniteSets, TLC

VARIABLES
    \* EnttecDMXProInput
    rx,                 \* bytes waiting in the serial port's receive buffer
    port_open,          \* the serial port has not been closed
    dmx_data,           \* the Channel Array: dmx_data[i] is channel i
    packet_count,
    last_status,
    last_packet_time,
    \* poll() in progress: its locals
    poll_i,             \* iterations of "for _ in range(10)" completed
    packets_received,
    message,            \* what the last _read_message() call returned
    \* the frame scheduler
    pc,
    now,
    frame_start,
    frame_count,
    running,
    \* parameters (DMXFireController, FlameBank)
    total_pixels,
    spacing,
    global_params,      \* flicker_intensity, color_shift, sporadic_flicker
    master_intensity,
    target_master_intensity,
    flame_banks,        \* bank id -> [intensity, target_intensity, parameters]
    pixel_colors,       \* bank id -> what its last update() returned
    \* output
    universe_data,
    sender_data,        \* sender[univ].dmx_data, the frame handed to sACN
    sender_running,
    \* history of the running poll() and of the run
    poll_rx0,           \* rx when the running poll() began
    poll_arrived,       \* bytes arrived since the running poll() began
    poll_count0,        \* packet_count when the running poll() began
    poll_reads,         \* port.read() calls made by the running poll()
    poll_fault,         \* the running poll() caught a SerialException
    arrivals,
    faults,
    polls,              \* poll() calls
    exits,              \* how the frame loop was left: "", "interrupt", "error"
    \* single objects exercised on their own
    smoother,           \* one smoothed parameter followed over many updates, or two targets
    probe,              \* one bench's subject: a pixel index, a bank layout, a routing, a stream
    pixel,              \* one SmoothFirePixel, or two of one seed
    show,               \* the threaded show controller (show_control.py)
    pacer               \* the frame loop's clock readings and sleeps

decoder_vars == <<rx, port_open, dmx_data, packet_count, last_status, last_packet_time>>
poll_vars == <<poll_i, packets_received, message>>
sched_vars == <<pc, now, frame_start, frame_count, running>>
param_vars == <<total_pixels, spacing, global_params, master_intensity,
                target_master_intensity, flame_banks, pixel_colors>>
output_vars == <<universe_data, sender_data, sender_running>>
aux_vars == <<poll_rx0, poll_arrived, poll_count0, poll_reads, poll_fault,
              arrivals, faults, polls, exits>>
bench_vars == <<smoother, probe, pixel, show, pacer>>
vars == <<decoder_vars, poll_vars, sched_vars, param_vars, output_vars, aux_vars, bench_vars>>

----------------------------------------------------------------------------
(* Bounds of the model *)

MaxArrivals == 2        \* chunks of bytes the device delivers in one run
MaxFaults == 1          \* SerialExceptions in one run
MaxFrames == 2          \* frames (poll() calls) in one run
PixelSpacing == 125     \* the configured spacing (every Nth pixel burns)

----------------------------------------------------------------------------
(* Program constants *)

START_DELIMITER == 126
END_DELIMITER == 231
LABEL_RECEIVED_DMX == 5
NumChannels == 512
\* one more scan attempt than the code makes
MaxStartAttempts_six == 5 + 1
MaxStartAttempts == 5
\* one more message per poll() than the code reads
MaxPacketsPerPoll_eleven == 10 + 1
MaxPacketsPerPoll == 10

Byte == 0..255

Min(a, b) == IF a < b THEN a ELSE b

Drop(s, n) == SubSeq(s, n + 1, Len(s))

----------------------------------------------------------------------------
(* EnttecDMXProInput._read_message                                         *)
(*                                                                         *)
(* port.read(n) returns the first min(n, available) bytes of rx (timeout   *)
(* 1 ms).  The result is [kind, label, data, rest, reads]: kind "msg" for  *)
(* a returned message, "none" for None, "fault" when a read raised         *)
(* SerialException; rest is rx after the call, reads the number of         *)
(* port.read() calls made.                                                 *)

NoMessage(rest, reads) ==
    [kind |-> "none", label |-> 0, data |-> <<>>, rest |-> rest, reads |-> reads]

\* Index of the start delimiter found by the scan (0: not found): the scan
\* reads one byte at a time, at most `attempts` times, and stops at an empty read.
ScanStart(buf, attempts) ==
    LET n == Min(attempts, Len(buf))
        hits == {i \in 1..n : buf[i] = START_DELIMITER}
    IN  IF hits = {} THEN 0 ELSE CHOOSE i \in hits : \A j \in hits : i <= j

\* the length read high byte first
LengthOf_BigEndian(b0, b1) == 256 * b0 + b1

\* struct.unpack('<H', length_bytes)
LengthOf(b0, b1) == b0 + 256 * b1

\* a reader that gives the message up when the end byte is not END_DELIMITER
FinishMessage_strict(buf, h, length) ==
    IF Len(buf) < h + 3 + length
    THEN [kind |-> "none", label |-> 0, data |-> <<>>, rest |-> <<>>, reads |-> h + 3]
    ELSE IF Len(buf) < h + 4 + length \/ buf[h + 4 + length] # END_DELIMITER
    THEN [kind |-> "none", label |-> 0, data |-> <<>>,
          rest |-> Drop(buf, Min(Len(buf), h + 4 + length)), reads |-> h + 4]
    ELSE [kind |-> "msg",
          label |-> buf[h + 1],
          data |-> SubSeq(buf, h + 4, h + 3 + length),
          rest |-> Drop(buf, h + 4 + length),
          reads |-> h + 4]

\* payload = port.read(length), then end_byte = port.read(1): the end byte
\* is consumed, whatever it is, when there is one, and the message is
\* returned even when it is missing or is not END_DELIMITER.  h is the
\* index of the start delimiter.
FinishMessage(buf, h, length) ==
    IF Len(buf) < h + 3 + length
    THEN NoMessage(<<>>, h + 3)
    ELSE [kind |-> "msg",
          label |-> buf[h + 1],
          data |-> SubSeq(buf, h + 4, h + 3 + length),
          rest |-> Drop(buf, Min(Len(buf), h + 4 + length)),
          reads |-> h + 4]

\* The call when no read raises.
ReadMessagePlan(buf, attempts) ==
    LET L == Len(buf)
        h == ScanStart(buf, attempts)
    IN  IF h = 0
        THEN \* an empty read ends the scan early; else all attempts are used
             IF L < attempts THEN NoMessage(<<>>, L + 1)
                             ELSE NoMessage(Drop(buf, attempts), attempts)
        ELSE IF L < h + 1 THEN NoMessage(<<>>, h + 1)       \* no label
        ELSE IF L < h + 3 THEN NoMessage(<<>>, h + 2)       \* length short
        ELSE FinishMessage(buf, h, LengthOf(buf[h + 2], buf[h + 3]))

\* Bytes consumed by the reads before the k-th one (k <= reads of the plan).
ConsumedBefore(buf, attempts, k) ==
    LET h == ScanStart(buf, attempts)
    IN  IF h = 0 \/ k <= h + 2 THEN k - 1
        ELSE IF k = h + 3 THEN h + 3
        ELSE h + 3 + LengthOf(buf[h + 2], buf[h + 3])

\* fault = 0: no read raises; fault = k: the k-th read raises SerialException.
ReadMessageWith(buf, fault, attempts) ==
    LET plan == ReadMessagePlan(buf, attempts)
    IN  IF fault \in 1..plan.reads
        THEN [kind |-> "fault", label |-> 0, data |-> <<>>,
              rest |-> Drop(buf, ConsumedBefore(buf, attempts, fault)),
              reads |-> fault]
        ELSE plan

read_message(buf, fault) == ReadMessageWith(buf, fault, MaxStartAttempts)

----------------------------------------------------------------------------
(* EnttecDMXProInput._process_dmx_packet and get_channel                   *)

\* the start code taken for channel 1
ChannelsOf_KeepStartCode(payload) == SubSeq(payload, 2, Len(payload))

\* payload[1:][1:]: the bytes after the status and the start code
ChannelsOf(payload) == SubSeq(payload, 3, Len(payload))

\* a decoder that drops a packet whose status byte reports an error
process_dmx_packet_strict(payload, t) ==
    IF Len(payload) < 1
    THEN [ok |-> FALSE, dmx_data |-> dmx_data, packet_count |-> packet_count,
          last_status |-> last_status, last_packet_time |-> last_packet_time]
    ELSE IF payload[1] = 0 /\ Len(payload) - 1 > 0
    THEN [ok |-> TRUE,
          dmx_data |-> [i \in 1..512 |->
                           IF i <= Len(payload) - 2 THEN payload[i + 2] ELSE dmx_data[i]],
          packet_count |-> packet_count + 1,
          last_status |-> payload[1],
          last_packet_time |-> t]
    ELSE [ok |-> FALSE, dmx_data |-> dmx_data, packet_count |-> packet_count,
          last_status |-> payload[1], last_packet_time |-> last_packet_time]

\* a decoder that replaces the whole Channel Array by the message, zeros
\* after its last channel
process_dmx_packet_replace(payload, t) ==
    IF Len(payload) < 1
    THEN [ok |-> FALSE, dmx_data |-> dmx_data, packet_count |-> packet_count,
          last_status |-> last_status, last_packet_time |-> last_packet_time]
    ELSE IF Len(payload) - 1 > 0
    THEN [ok |-> TRUE,
          dmx_data |-> [i \in 1..512 |->
                           IF i <= Len(payload) - 2 THEN payload[i + 2] ELSE 0],
          packet_count |-> packet_count + 1,
          last_status |-> payload[1],
          last_packet_time |-> t]
    ELSE [ok |-> FALSE, dmx_data |-> dmx_data, packet_count |-> packet_count,
          last_status |-> payload[1], last_packet_time |-> last_packet_time]

\* the result: [ok, dmx_data, packet_count, last_status, last_packet_time]
process_dmx_packet(payload, t) ==
    IF Len(payload) < 1
    THEN [ok |-> FALSE, dmx_data |-> dmx_data, packet_count |-> packet_count,
          last_status |-> last_status, last_packet_time |-> last_packet_time]
    ELSE IF Len(payload) - 1 > 0
    THEN LET channels == ChannelsOf(payload)
         IN  [ok |-> TRUE,
              dmx_data |-> [i \in 1..NumChannels |->
                               IF i <= Len(channels) THEN channels[i] ELSE dmx_data[i]],
              packet_count |-> packet_count + 1,
              last_status |-> payload[1],
              last_packet_time |-> t]
    ELSE [ok |-> FALSE, dmx_data |-> dmx_data, packet_count |-> packet_count,
          last_status |-> payload[1], last_packet_time |-> last_packet_time]

get_channel(channel) ==
    IF 1 <= channel /\ channel <= 512 THEN dmx_data[channel] ELSE 0

----------------------------------------------------------------------------
(* Parameter values: [n, k] is n / (255 * 10^k)                            *)

RECURSIVE Pow10(_)
Pow10(k) == IF k = 0 THEN 1 ELSE 10 * Pow10(k - 1)

RECURSIVE Norm(_)
Norm(x) == IF x.k > 0 /\ x.n % 10 = 0 THEN Norm([n |-> x.n \div 10, k |-> x.k - 1]) ELSE x

\* dmx_value / 255.0
FromByte(v) == [n |-> v, k |-> 0]

Half == [n |-> 1275, k |-> 1]       \* 0.5

\* no interpolation: the value jumps to its target
Smooth_instant(current, target_byte) == FromByte(target_byte)

\* a gain above one: the value is carried past the target
Smooth_overshoot(current, target_byte) ==
    Norm([n |-> 13 * target_byte * Pow10(current.k) - 3 * current.n, k |-> current.k + 1])

\* current + (target - current) * 0.3, target = target_byte / 255
Smooth(current, target_byte) ==
    Norm([n |-> 7 * current.n + 3 * target_byte * Pow10(current.k), k |-> current.k + 1])

Abs(x) == IF x < 0 THEN -x ELSE x

\* the threshold of config.HYSTERESIS_THRESHOLD: a change of 5 passes
ExceedsHysteresis_config(dmx_value, target_byte) == Abs(dmx_value - target_byte) >= 5

\* abs(dmx_value / 255.0 - target_byte / 255.0) > 0.02
ExceedsHysteresis(dmx_value, target_byte) == 100 * Abs(dmx_value - target_byte) > 2 * 255

\* int(c * x) for an integer c >= 0: floor(c * n / (255 * 10^k))
ScaleInt(c, x) ==
    LET p == Pow10(x.k)
    IN  (c * (x.n \div p) + (c * (x.n % p)) \div p) \div 255

----------------------------------------------------------------------------
(* Topology (DMXFireController.__init__)                                   *)

OUTPUT_UNIVERSE_START == 1
TOTAL_PIXELS == 1845
\* a configured strip shorter than the banks' fixed ranges (validate_config
\* accepts 1..10000)
ShortStrip == 1700
\* a strip that ends inside the last bank's fixed range
PartStrip == 1800
LedsPerUniverse == 512 \div 3
NumBanks == 13
BankIds == 0..(NumBanks - 1)

\* bank_sizes = [125] * 7 + [125] * 3 + [150] * 3
BankSize(bank_id) == IF bank_id < 7 THEN 125 ELSE IF bank_id < 10 THEN 125 ELSE 150

\* start_idx of the bank: banks follow one another, and bank 7 (the first
\* of WLED TWO) skips to pixel 1020
\* banks following one another without the skip
RECURSIVE BankStart_nogap(_)
BankStart_nogap(bank_id) ==
    IF bank_id = 0 THEN 0 ELSE BankStart_nogap(bank_id - 1) + BankSize(bank_id - 1)

RECURSIVE BankStart(_)
BankStart(bank_id) ==
    IF bank_id = 7 THEN 1020
    ELSE IF bank_id = 0 THEN 0
    ELSE BankStart(bank_id - 1) + BankSize(bank_id - 1)

\* a range that takes in its end
PixelIndices_inclusive(bank_id, step) ==
    LET start_idx == BankStart(bank_id)
        end_idx == start_idx + BankSize(bank_id)
    IN  {p \in start_idx..end_idx : (p - start_idx) % step = 0}

\* list(range(start_idx, end_idx, spacing))
PixelIndices(bank_id, step) ==
    LET start_idx == BankStart(bank_id)
        end_idx == start_idx + BankSize(bank_id)
    IN  {p \in start_idx..(end_idx - 1) : (p - start_idx) % step = 0}

NumUniverses(total) == (total + LedsPerUniverse - 1) \div LedsPerUniverse

Universes(total) ==
    {OUTPUT_UNIVERSE_START + i : i \in 0..(NumUniverses(total) - 1)}

\* A 512-byte universe buffer is held as the map of its non-zero channels:
\* channel ch (0..511) holds buf[ch] when ch is in its domain and 0 otherwise.
ZeroFrame == <<>>
ChannelByte(buf, ch) == IF ch \in DOMAIN buf THEN buf[ch] ELSE 0

----------------------------------------------------------------------------
(* FlameBank                                                               *)

\* a bank that is created at full intensity
NewBank_lit ==
    [intensity |-> FromByte(255), target_intensity |-> 255,
     flicker_intensity |-> Half, color_shift |-> FromByte(0),
     sporadic_flicker |-> FromByte(0)]

\* intensity = 0.0, target_intensity = 0.0 and the parameter defaults
NewBank ==
    [intensity |-> FromByte(0), target_intensity |-> 0,
     flicker_intensity |-> Half, color_shift |-> FromByte(0),
     sporadic_flicker |-> FromByte(0)]

set_intensity(bank, dmx_value) ==
    LET target == IF ExceedsHysteresis(dmx_value, bank.target_intensity)
                  THEN dmx_value ELSE bank.target_intensity
    IN  [bank EXCEPT !.target_intensity = target,
                     !.intensity = Smooth(bank.intensity, target)]

\* SmoothFirePixel.update(current_time) is an input here: a frame's draw
\* decides what every pixel's synthesizer returns in that frame (black, a
\* fire colour or the white-hot flash, differing from pixel to pixel).
SynthColors == <<(<<0, 0, 0>>), (<<229, 114, 13>>), (<<255, 255, 200>>)>>
SynthDraws == 1..Len(SynthColors)
Synth(draw) == [p \in 0..2047 |-> SynthColors[((draw + p) % Len(SynthColors)) + 1]]

\* A bank's pixels are synthesized only when the bank is on.
IsOn(bank) == ~(bank.intensity.n <= 0)

\* a bank that hands on what the synthesizers return, whatever its intensity
bank_update_unscaled(bank, pixels, synth) == [p \in pixels |-> synth[p]]

\* FlameBank.update: synth[p] is what fire_pixel.update(current_time)
\* returns for pixel p of this bank
bank_update(bank, pixels, synth) ==
    IF bank.intensity.n <= 0
    THEN [p \in pixels |-> <<0, 0, 0>>]
    ELSE [p \in pixels |-> <<ScaleInt(synth[p][1], bank.intensity),
                              ScaleInt(synth[p][2], bank.intensity),
                              ScaleInt(synth[p][3], bank.intensity)>>]

----------------------------------------------------------------------------
(* DMXFireController._render_frame                                         *)

\* flame_banks[b].pixel_indices for the configured spacing
PixelsOfBank == [b \in BankIds |-> PixelIndices(b, PixelSpacing)]

UnivOf(pixel_idx) == OUTPUT_UNIVERSE_START + pixel_idx \div LedsPerUniverse
\* two channels per pixel instead of three
ChannelOffset_pairs(pixel_idx) == (pixel_idx % LedsPerUniverse) * 2

ChannelOffset(pixel_idx) == (pixel_idx % LedsPerUniverse) * 3

\* (bank, pixel) in the order the two loops visit them
Visits == UNION {{<<b, p>> : p \in PixelsOfBank[b]} : b \in BankIds}
VisitBefore(x, y) == x[1] < y[1] \/ (x[1] = y[1] /\ x[2] < y[2])

\* The first visit that addresses a universe without a buffer (KeyError),
\* <<>> when there is none.
FirstMissing(universes) ==
    LET bad == {x \in Visits : UnivOf(x[2]) \notin universes}
    IN  IF bad = {} THEN <<>>
        ELSE CHOOSE x \in bad : \A y \in bad : x = y \/ VisitBefore(x, y)

\* banks whose update() runs in this frame, and the visits made before the
\* loop ends or raises at `missing`
UpdatedBanks(missing) ==
    IF missing = <<>> THEN BankIds ELSE {b \in BankIds : b <= missing[1]}
WrittenVisits(missing) ==
    IF missing = <<>> THEN Visits ELSE {x \in Visits : VisitBefore(x, missing)}

BankColors(updated, synth) ==
    [b \in BankIds |->
        IF b \in updated
        THEN bank_update(flame_banks[b], PixelsOfBank[b], synth)
        ELSE pixel_colors[b]]

\* what the pixel loop writes: pixel -> (r, g, b) after the master
\* intensity; a later visit of the same pixel replaces an earlier one
PixelWrites(written, colors) ==
    LET LastWriter(p) == CHOOSE b \in {x[1] : x \in {y \in written : y[2] = p}} :
                            \A x \in written : x[2] = p => x[1] <= b
    IN  [p \in {x[2] : x \in written} |->
            LET c == colors[LastWriter(p)][p]
            IN  <<ScaleInt(c[1], master_intensity),
                  ScaleInt(c[2], master_intensity),
                  ScaleInt(c[3], master_intensity)>>]

\* no clear, and zero bytes are not written: what an earlier frame left
\* shows through
BuffersOf_lazy(writes) ==
    [u \in DOMAIN universe_data |->
        LET mine == {p \in DOMAIN writes : UnivOf(p) = u}
            touched == UNION {{ChannelOffset(p), ChannelOffset(p) + 1,
                               ChannelOffset(p) + 2} : p \in mine}
            Written(ch) ==
                IF ch \in touched
                THEN LET p == CHOOSE q \in mine : ch - ChannelOffset(q) \in 0..2
                     IN  writes[p][ch - ChannelOffset(p) + 1]
                ELSE 0
            ByteAt(ch) == IF Written(ch) # 0 THEN Written(ch)
                          ELSE ChannelByte(universe_data[u], ch)
        IN  [ch \in {c \in touched \cup DOMAIN universe_data[u] : ByteAt(c) # 0}
                |-> ByteAt(ch)]]

\* the buffers after the clear ([0] * 512) and the pixel writes
BuffersOf(writes) ==
    [u \in DOMAIN universe_data |->
        LET mine == {p \in DOMAIN writes : UnivOf(p) = u}
            ByteAt(ch) ==
                LET p == CHOOSE q \in mine : ch - ChannelOffset(q) \in 0..2
                IN  writes[p][ch - ChannelOffset(p) + 1]
            touched == UNION {{ChannelOffset(p), ChannelOffset(p) + 1,
                               ChannelOffset(p) + 2} : p \in mine}
        IN  [ch \in {c \in touched : ByteAt(c) # 0} |-> ByteAt(ch)]]

----------------------------------------------------------------------------
(* What the ENTTEC device sends: [0x7E][label][length LE][payload][0xE7]   *)

Frame(label, payload) ==
    <<START_DELIMITER, label, Len(payload) % 256, Len(payload) \div 256>>
        \o payload \o <<END_DELIMITER>>

WithoutEnd(frame) == SubSeq(frame, 1, Len(frame) - 1)

RECURSIVE Repeat(_, _)
Repeat(s, n) == IF n = 0 THEN <<>> ELSE s \o Repeat(s, n - 1)

\* 7E 05 04 00 00 00 10 20 E7
ScenarioFrame == Frame(LABEL_RECEIVED_DMX, <<0, 0, 16, 32>>)

\* console looks: channels 1..19 (speed, colour, wind, -, -, master, banks 1..13)
Look(master, bank1, bank11) ==
    <<128, 0, 0, 0, 0, master, bank1, 0, 0, 0, 0, 0, 0, 0, 0, 0, bank11, 0, 0>>
LookFrame(master, bank1, bank11) ==
    Frame(LABEL_RECEIVED_DMX, <<0, 0>> \o Look(master, bank1, bank11))

\* a message with more channels than the Channel Array holds
LongFrame ==
    Frame(LABEL_RECEIVED_DMX, <<0, 0>> \o [i \in 1..(NumChannels + 2) |-> (i % 250) + 1])

ControlChunks ==
    { LookFrame(255, 255, 0),           \* bank 1 full
      LookFrame(255, 0, 0),             \* bank 1 commanded to 0
      LookFrame(255, 5, 255) }          \* bank 1 at 5, bank 11 full

DecoderChunks ==
    { ScenarioFrame,
      Frame(LABEL_RECEIVED_DMX, <<3, 0, 64, 65, 66>>),          \* status 3
      WithoutEnd(Frame(LABEL_RECEIVED_DMX, <<0, 0, 48, 49>>)),  \* end byte late
      WithoutEnd(Frame(LABEL_RECEIVED_DMX, <<0, 7, 33>>)) \o <<0>>, \* wrong end byte
      Frame(9, <<1, 2>>),                                       \* another label
      Frame(LABEL_RECEIVED_DMX, <<>>),
      Frame(LABEL_RECEIVED_DMX, <<0>>),                         \* status only
      Frame(LABEL_RECEIVED_DMX, <<0, 0>>),                      \* no channels
      <<17, 34>>,                                               \* line noise
      <<17, 34, 51, 68, 85>>,
      <<START_DELIMITER>>,
      <<START_DELIMITER, LABEL_RECEIVED_DMX, 4>>,
      SubSeq(ScenarioFrame, 1, 6),                              \* payload cut
      Repeat(ScenarioFrame, MaxPacketsPerPoll + 1),             \* a backlog
      LongFrame }

----------------------------------------------------------------------------
(* Initial state: the objects as their constructors leave them             *)

InitWith(strips) ==
    /\ rx = <<>>
    /\ port_open = TRUE
    /\ dmx_data = [i \in 1..NumChannels |-> 0]
    /\ packet_count = 0
    /\ last_status = 0
    /\ last_packet_time = 0
    /\ poll_i = 0
    /\ packets_received = 0
    /\ message = NoMessage(<<>>, 0)
    /\ pc = "idle"
    /\ now = 0
    /\ frame_start = 0
    /\ frame_count = 0
    /\ running = FALSE
    /\ total_pixels \in strips
    /\ spacing = PixelSpacing
    /\ global_params = [flicker_intensity |-> Half, color_shift |-> FromByte(0),
                        sporadic_flicker |-> FromByte(0)]
    /\ master_intensity = FromByte(255)
    /\ target_master_intensity = 255
    /\ flame_banks = [b \in BankIds |-> NewBank]
    /\ pixel_colors = [b \in BankIds |-> [p \in PixelsOfBank[b] |-> <<0, 0, 0>>]]
    /\ universe_data = [u \in Universes(total_pixels) |-> ZeroFrame]
    /\ sender_data = [u \in Universes(total_pixels) |-> ZeroFrame]
    /\ sender_running = TRUE
    /\ poll_rx0 = <<>>
    /\ poll_arrived = FALSE
    /\ poll_count0 = 0
    /\ poll_reads = 0
    /\ poll_fault = FALSE
    /\ arrivals = 0
    /\ faults = 0
    /\ polls = 0
    /\ exits = ""
    /\ smoother = <<>>
    /\ probe = <<>>
    /\ pixel = <<>>
    /\ show = <<>>
    /\ pacer = <<>>

Init == InitWith({TOTAL_PIXELS, ShortStrip})

----------------------------------------------------------------------------
(* The device delivers bytes                                               *)

ArriveFrom(chunks) ==
    /\ arrivals < MaxArrivals
    /\ port_open
    /\ \E c \in chunks : rx' = rx \o c
    /\ arrivals' = arrivals + 1
    /\ poll_arrived' = TRUE
    /\ UNCHANGED <<port_open, dmx_data, packet_count, last_status, last_packet_time>>
    /\ UNCHANGED <<poll_vars, sched_vars, param_vars, output_vars>>
    /\ UNCHANGED <<poll_rx0, poll_count0, poll_reads, poll_fault, faults, polls, exits>>
    /\ UNCHANGED bench_vars

\* bytes arriving while the loop is busy elsewhere wait in the buffer until
\* the next poll(), so the controller's arrivals are taken during poll()
Arrive == pc = "polling" /\ ArriveFrom(ControlChunks)

\* the decoder alone, fed everything the line can carry
ArriveAny == pc \in {"idle", "polled"} /\ ArriveFrom(DecoderChunks)

----------------------------------------------------------------------------
(* EnttecDMXProInput.poll, one iteration of its loop per step              *)

\* packets_received = 0, and the loop is entered
poll_begin ==
    /\ poll_i' = 0
    /\ packets_received' = 0
    /\ poll_rx0' = rx
    /\ poll_arrived' = FALSE
    /\ poll_count0' = packet_count
    /\ poll_reads' = 0
    /\ poll_fault' = FALSE
    /\ polls' = polls + 1

\* poll() called again and again, nothing else done between the calls
poll_call ==
    /\ pc \in {"idle", "polled"}
    /\ polls < MaxFrames
    /\ poll_begin
    /\ now' = now + 1
    /\ pc' = "polling"
    /\ UNCHANGED <<decoder_vars, message, frame_start, frame_count, running>>
    /\ UNCHANGED <<param_vars, output_vars, arrivals, faults, exits>>
    /\ UNCHANGED bench_vars

\* where the loop goes after an iteration that did not break
AfterIteration == IF poll_i + 1 < MaxPacketsPerPoll THEN "polling" ELSE "polled"

\* a read raises only while faults are left in this run
FaultChoices(buf) ==
    IF faults < MaxFaults THEN 1..ReadMessagePlan(buf, MaxStartAttempts).reads ELSE {}

\* _read_message returned a message labelled LABEL_RECEIVED_DMX
PollMessage ==
    /\ pc = "polling"
    /\ LET m == read_message(rx, 0)
           r == process_dmx_packet(m.data, now)
       IN  /\ m.kind = "msg" /\ m.label = LABEL_RECEIVED_DMX
           /\ rx' = m.rest
           /\ message' = m
           /\ dmx_data' = r.dmx_data
           /\ packet_count' = r.packet_count
           /\ last_status' = r.last_status
           /\ last_packet_time' = r.last_packet_time
           /\ packets_received' = IF r.ok THEN packets_received + 1 ELSE packets_received
           /\ poll_reads' = poll_reads + m.reads
    /\ poll_i' = poll_i + 1
    /\ pc' = AfterIteration
    /\ UNCHANGED <<port_open, now, frame_start, frame_count, running>>
    /\ UNCHANGED <<param_vars, output_vars>>
    /\ UNCHANGED <<poll_rx0, poll_arrived, poll_count0, poll_fault, arrivals, faults, polls, exits>>
    /\ UNCHANGED bench_vars

\* a drain that stamps the packet time whenever it read anything
PollBreak_stamps ==
    /\ pc = "polling"
    /\ LET m == read_message(rx, 0)
       IN  /\ ~(m.kind = "msg" /\ m.label = LABEL_RECEIVED_DMX)
           /\ rx' = m.rest
           /\ message' = m
           /\ poll_reads' = poll_reads + m.reads
    /\ poll_i' = poll_i + 1
    /\ pc' = "polled"
    /\ last_packet_time' = now
    /\ UNCHANGED <<port_open, dmx_data, packet_count, last_status>>
    /\ UNCHANGED <<packets_received, now, frame_start, frame_count, running>>
    /\ UNCHANGED <<param_vars, output_vars>>
    /\ UNCHANGED <<poll_rx0, poll_arrived, poll_count0, poll_fault, arrivals, faults, polls, exits>>
    /\ UNCHANGED bench_vars

\* _read_message returned None or a message with another label: break
PollBreak ==
    /\ pc = "polling"
    /\ LET m == read_message(rx, 0)
       IN  /\ ~(m.kind = "msg" /\ m.label = LABEL_RECEIVED_DMX)
           /\ rx' = m.rest
           /\ message' = m
           /\ poll_reads' = poll_reads + m.reads
    /\ poll_i' = poll_i + 1
    /\ pc' = "polled"
    /\ UNCHANGED <<port_open, dmx_data, packet_count, last_status, last_packet_time>>
    /\ UNCHANGED <<packets_received, now, frame_start, frame_count, running>>
    /\ UNCHANGED <<param_vars, output_vars>>
    /\ UNCHANGED <<poll_rx0, poll_arrived, poll_count0, poll_fault, arrivals, faults, polls, exits>>
    /\ UNCHANGED bench_vars

\* a poll() that lets the SerialException through: it leaves the frame loop
PollFault_raises ==
    /\ pc = "polling"
    /\ \E f \in FaultChoices(rx) :
          LET m == read_message(rx, f)
          IN  /\ rx' = m.rest
              /\ message' = m
              /\ poll_reads' = poll_reads + m.reads
    /\ poll_i' = poll_i + 1
    /\ pc' = "stop"
    /\ exits' = "error"
    /\ poll_fault' = TRUE
    /\ faults' = faults + 1
    /\ UNCHANGED <<port_open, dmx_data, packet_count, last_status, last_packet_time>>
    /\ UNCHANGED <<packets_received, now, frame_start, frame_count, running>>
    /\ UNCHANGED <<param_vars, output_vars>>
    /\ UNCHANGED <<poll_rx0, poll_arrived, poll_count0, arrivals, polls>>
    /\ UNCHANGED bench_vars

\* a read of _read_message raised serial.SerialException: caught, break
PollFault ==
    /\ pc = "polling"
    /\ \E f \in FaultChoices(rx) :
          LET m == read_message(rx, f)
          IN  /\ rx' = m.rest
              /\ message' = m
              /\ poll_reads' = poll_reads + m.reads
    /\ poll_i' = poll_i + 1
    /\ pc' = "polled"
    /\ poll_fault' = TRUE
    /\ faults' = faults + 1
    /\ UNCHANGED <<port_open, dmx_data, packet_count, last_status, last_packet_time>>
    /\ UNCHANGED <<packets_received, now, frame_start, frame_count, running>>
    /\ UNCHANGED <<param_vars, output_vars>>
    /\ UNCHANGED <<poll_rx0, poll_arrived, poll_count0, arrivals, polls, exits>>
    /\ UNCHANGED bench_vars

----------------------------------------------------------------------------
(* DMXFireController.run: the frame loop                                   *)

LoopPlaces == {"loop_top", "polling", "polled", "render", "pace"}

run_start ==
    /\ pc = "idle"
    /\ running' = TRUE
    /\ pc' = "loop_top"
    /\ UNCHANGED <<decoder_vars, poll_vars, now, frame_start, frame_count>>
    /\ UNCHANGED <<param_vars, output_vars, aux_vars>>
    /\ UNCHANGED bench_vars

\* while self.running: frame_start = time.time(); _update_from_dmx() calls poll()
FrameBegin ==
    /\ pc = "loop_top"
    /\ running
    /\ frame_count < MaxFrames
    /\ frame_start' = now
    /\ poll_begin
    /\ pc' = "polling"
    /\ UNCHANGED <<decoder_vars, message, now, frame_count, running>>
    /\ UNCHANGED <<param_vars, output_vars, arrivals, faults, exits>>
    /\ UNCHANGED bench_vars

\* the banks given the parameters before these are read from the channels
update_from_dmx_stale ==
    /\ pc = "polled"
    /\ global_params' = [flicker_intensity |-> FromByte(get_channel(1)),
                         color_shift |-> FromByte(get_channel(2)),
                         sporadic_flicker |-> FromByte(get_channel(3))]
    /\ LET master_dmx == get_channel(6)
           target == IF ExceedsHysteresis(master_dmx, target_master_intensity)
                     THEN master_dmx ELSE target_master_intensity
       IN  /\ target_master_intensity' = target
           /\ master_intensity' = Smooth(master_intensity, target)
    /\ flame_banks' =
          [i \in BankIds |->
              [set_intensity(flame_banks[i], get_channel(7 + i))
                  EXCEPT !.flicker_intensity = global_params.flicker_intensity,
                         !.color_shift = global_params.color_shift,
                         !.sporadic_flicker = global_params.sporadic_flicker]]
    /\ pc' = "render"
    /\ UNCHANGED <<decoder_vars, poll_vars, now, frame_start, frame_count, running>>
    /\ UNCHANGED <<total_pixels, spacing, pixel_colors, output_vars, aux_vars>>
    /\ UNCHANGED bench_vars

\* _update_from_dmx after poll() has returned
update_from_dmx ==
    /\ pc = "polled"
    /\ global_params' = [flicker_intensity |-> FromByte(get_channel(1)),
                         color_shift |-> FromByte(get_channel(2)),
                         sporadic_flicker |-> FromByte(get_channel(3))]
    /\ LET master_dmx == get_channel(6)
           target == IF ExceedsHysteresis(master_dmx, target_master_intensity)
                     THEN master_dmx ELSE target_master_intensity
       IN  /\ target_master_intensity' = target
           /\ master_intensity' = Smooth(master_intensity, target)
    /\ flame_banks' =
          [i \in BankIds |->
              [set_intensity(flame_banks[i], get_channel(7 + i))
                  EXCEPT !.flicker_intensity = global_params'.flicker_intensity,
                         !.color_shift = global_params'.color_shift,
                         !.sporadic_flicker = global_params'.sporadic_flicker]]
    /\ pc' = "render"
    /\ UNCHANGED <<decoder_vars, poll_vars, now, frame_start, frame_count, running>>
    /\ UNCHANGED <<total_pixels, spacing, pixel_colors, output_vars, aux_vars>>
    /\ UNCHANGED bench_vars

\* _render_frame(frame_start); a universe without a buffer raises KeyError,
\* which leaves the loop
render_frame ==
    /\ pc = "render"
    /\ \E missing \in {FirstMissing(DOMAIN universe_data)} :
          /\ \E draw \in SynthDraws :
             \E colors \in {BankColors(UpdatedBanks(missing), Synth(draw))} :
             \E writes \in {PixelWrites(WrittenVisits(missing), colors)} :
                /\ pixel_colors' = colors
                /\ universe_data' = BuffersOf(writes)
          /\ IF missing = <<>>
             THEN /\ sender_data' = universe_data'
                  /\ pc' = "pace"
                  /\ exits' = exits
             ELSE /\ sender_data' = sender_data
                  /\ pc' = "stop"
                  /\ exits' = "error"
    /\ UNCHANGED <<decoder_vars, poll_vars, now, frame_start, frame_count, running>>
    /\ UNCHANGED <<total_pixels, spacing, global_params, master_intensity,
                   target_master_intensity, flame_banks, sender_running>>
    /\ UNCHANGED <<poll_rx0, poll_arrived, poll_count0, poll_reads, poll_fault,
                   arrivals, faults, polls>>
    /\ UNCHANGED bench_vars

\* frame_count += 1; the pacing sleep; the clock moves on
pace ==
    /\ pc = "pace"
    /\ frame_count' = frame_count + 1
    /\ now' = now + 1
    /\ pc' = "loop_top"
    /\ UNCHANGED <<decoder_vars, poll_vars, frame_start, running>>
    /\ UNCHANGED <<param_vars, output_vars, aux_vars>>
    /\ UNCHANGED bench_vars

\* Ctrl+C anywhere in the loop: except KeyboardInterrupt, then finally
KeyboardInterrupt ==
    /\ pc \in LoopPlaces
    /\ pc' = "stop"
    /\ exits' = "interrupt"
    /\ UNCHANGED <<decoder_vars, poll_vars, now, frame_start, frame_count, running>>
    /\ UNCHANGED <<param_vars, output_vars>>
    /\ UNCHANGED <<poll_rx0, poll_arrived, poll_count0, poll_reads, poll_fault,
                   arrivals, faults, polls>>
    /\ UNCHANGED bench_vars

----------------------------------------------------------------------------
(* DMXFireController.stop, in the order of its statements                  *)

\* a stop() that clears its own buffers and hands nothing to the sender
stop_outputs_off_unsent ==
    /\ pc = "stop"
    /\ running' = FALSE
    /\ universe_data' = [u \in DOMAIN universe_data |-> ZeroFrame]
    /\ pc' = "stop_sender"
    /\ UNCHANGED <<decoder_vars, poll_vars, now, frame_start, frame_count>>
    /\ UNCHANGED <<param_vars, sender_data, sender_running, aux_vars>>
    /\ UNCHANGED bench_vars

\* self.running = False; every sender[univ].dmx_data = [0] * 512
stop_outputs_off ==
    /\ pc = "stop"
    /\ running' = FALSE
    /\ sender_data' = [u \in DOMAIN universe_data |-> ZeroFrame]
    /\ pc' = "stop_sender"
    /\ UNCHANGED <<decoder_vars, poll_vars, now, frame_start, frame_count>>
    /\ UNCHANGED <<param_vars, universe_data, sender_running, aux_vars>>
    /\ UNCHANGED bench_vars

\* self.sender.stop()
stop_sender ==
    /\ pc = "stop_sender"
    /\ sender_running' = FALSE
    /\ pc' = "stop_close"
    /\ UNCHANGED <<decoder_vars, poll_vars, now, frame_start, frame_count, running>>
    /\ UNCHANGED <<param_vars, universe_data, sender_data, aux_vars>>
    /\ UNCHANGED bench_vars

\* self.dmx_input.close()
stop_close ==
    /\ pc = "stop_close"
    /\ port_open' = FALSE
    /\ pc' = "done"
    /\ UNCHANGED <<rx, dmx_data, packet_count, last_status, last_packet_time>>
    /\ UNCHANGED <<poll_vars, now, frame_start, frame_count, running>>
    /\ UNCHANGED <<param_vars, output_vars, aux_vars>>
    /\ UNCHANGED bench_vars

----------------------------------------------------------------------------
(* The controller                                                          *)

Next ==
    \/ Arrive
    \/ run_start
    \/ FrameBegin
    \/ PollMessage
    \/ PollBreak
    \/ PollFault
    \/ update_from_dmx
    \/ render_frame
    \/ pace
    \/ KeyboardInterrupt
    \/ stop_outputs_off
    \/ stop_sender
    \/ stop_close

Spec == Init /\ [][Next]_vars

\* The decoder driven by a caller that only polls
NextDecoder ==
    \/ ArriveAny
    \/ poll_call
    \/ PollMessage
    \/ PollBreak

InitDecoder == Init /\ total_pixels = TOTAL_PIXELS

SpecDecoder == InitDecoder /\ [][NextDecoder]_vars

----------------------------------------------------------------------------
(* Properties of the frame decoder and the channel store                   *)

\* What the bytes waiting at the port hold, read off the wire format alone:
\* the index of the first 0x7E among the first five bytes (0 when none),
\* the length the header declares, and whether header and payload are there.
FirstStart(buf) ==
    LET c == {h \in 1..Min(5, Len(buf)) : buf[h] = 126}
    IN  IF c = {} THEN 0 ELSE CHOOSE h \in c : \A g \in c : h <= g
DeclaredLength(buf) == buf[FirstStart(buf) + 2] + 256 * buf[FirstStart(buf) + 3]
Obtainable(buf) ==
    /\ FirstStart(buf) # 0
    /\ Len(buf) >= FirstStart(buf) + 3
    /\ Len(buf) >= FirstStart(buf) + 3 + DeclaredLength(buf)
PayloadOf(buf) ==
    SubSeq(buf, FirstStart(buf) + 4, FirstStart(buf) + 3 + DeclaredLength(buf))
EndByteBad(buf) ==
    LET e == FirstStart(buf) + 4 + DeclaredLength(buf)
    IN  Len(buf) < e \/ buf[e] # 231
\* exactly one frame [0x7E][0x05][len LE][status][start code][c1..cN][0xE7]
WellFormed(buf) ==
    /\ Len(buf) >= 7
    /\ buf[1] = 126 /\ buf[2] = 5
    /\ Len(buf) = buf[3] + 256 * buf[4] + 5
    /\ buf[Len(buf)] = 231

\* a step of poll(): one call of _read_message and what follows it
PollStep == pc = "polling" /\ poll_i' = poll_i + 1
\* the last _read_message returned a received-DMX message that was accepted
Accepted(m) == m.kind = "msg" /\ m.label = 5 /\ Len(m.data) >= 2

\* C1: after a well-formed label-0x05 message with N channel bytes has been
\* decoded, get_channel(i) is the i-th channel byte of the message for every
\* 1 <= i <= min(N, 512); get_channel is 0 for every index below 1 or above
\* 512; and the Channel Array always has 512 entries, each a byte.
C1_ChannelStore ==
    /\ DOMAIN dmx_data = 1..512
    /\ \A i \in 1..512 : dmx_data[i] \in 0..255
    /\ \A i \in {-300, -1, 0, 513, 514, 65535} : get_channel(i) = 0
    /\ Accepted(message) =>
          \A i \in 1..Min(Len(message.data) - 2, 512) :
              get_channel(i) = message.data[i + 2]

\* a message with more than 512 channels was decoded: channel 512 holds its
\* 512th channel byte
C1_Witness ==
    /\ Accepted(message)
    /\ Len(message.data) - 2 > 512
    /\ get_channel(512) = message.data[514]
    /\ get_channel(512) # 0
    /\ get_channel(513) = 0

\* C2: a poll() that finds exactly one well-formed frame waiting drops the
\* status and start-code bytes, stores c1..cN in channels 1..N, raises
\* packet_count by exactly 1 and returns 1.
C2_OneFrame ==
    (pc = "polled" /\ WellFormed(poll_rx0)) =>
        /\ \A i \in 1..Min(Len(poll_rx0) - 7, 512) : dmx_data[i] = poll_rx0[6 + i]
        /\ packet_count = poll_count0 + 1
        /\ packets_received = 1

\* 7E 05 04 00 00 00 10 20 E7 was decoded: channels 1 and 2 are 0x10, 0x20
C2_Witness ==
    /\ pc = "polled"
    /\ poll_rx0 = <<126, 5, 4, 0, 0, 0, 16, 32, 231>>
    /\ dmx_data[1] = 16 /\ dmx_data[2] = 32
    /\ packet_count = poll_count0 + 1
    /\ packets_received = 1

\* C4: one _read_message makes at most 5 reads looking for 0x7E and one read
\* each for label, length, payload and end byte, and returns no message
\* whenever start, label, length or the full payload are not there; so one
\* poll() makes at most 10 * 9 reads.
C4_BoundedReads ==
    [][PollStep =>
          /\ message'.reads <= 5 + 4
          /\ poll_reads' <= 9 * poll_i'
          /\ poll_reads' <= 90
          /\ (~Obtainable(rx) => message'.kind = "none")]_vars

\* the scan gave up after five bytes that were not 0x7E, with bytes left
C4_Witness ==
    /\ pc = "polled"
    /\ message.kind = "none"
    /\ message.reads = 5
    /\ rx # <<>>

\* the integer fields the decoder and its poll() keep
DecoderCounters == <<packet_count, last_status, packets_received>>

\* C7, as stated: an incomplete or malformed message leaves the Channel
\* Array, packet_count and last_packet_time unchanged, and the fault is
\* recorded in an internal counter.
C7_Original ==
    [][(PollStep /\ message'.kind = "none") =>
          /\ dmx_data' = dmx_data
          /\ packet_count' = packet_count
          /\ last_packet_time' = last_packet_time
          /\ DecoderCounters' # DecoderCounters]_vars

\* C7, amended: an incomplete or malformed message (no start delimiter, or
\* label, length or full payload not obtained) leaves the Channel Array,
\* packet_count and last_packet_time unchanged and is recorded nowhere: no
\* field of the decoder changes, only the bytes read are consumed and the
\* drain ends.
C7_Discarded ==
    [][(PollStep /\ message'.kind = "none") =>
          /\ dmx_data' = dmx_data
          /\ packet_count' = packet_count
          /\ last_packet_time' = last_packet_time
          /\ DecoderCounters' = DecoderCounters
          /\ port_open' = port_open
          /\ rx' = (IF FirstStart(rx) = 0 THEN Drop(rx, Min(5, Len(rx))) ELSE <<>>)
          /\ pc' = "polled"]_vars

\* a message whose payload was cut short was discarded after a packet had
\* been accepted earlier: the channels and the count are those of the packet
C7_Witness ==
    /\ pc = "polled"
    /\ message.kind = "none"
    /\ message.reads >= 4
    /\ packet_count = 1
    /\ packets_received = 0
    /\ dmx_data[1] # 0
    /\ last_packet_time < now

C9_TolerantFraming ==
    [][(PollStep /\ Obtainable(rx) /\ EndByteBad(rx)) =>
          /\ message'.kind = "msg"
          /\ message'.label = rx[FirstStart(rx) + 1]
          /\ message'.data = PayloadOf(rx)
          /\ Accepted(message') =>
                /\ \A i \in 1..Min(Len(PayloadOf(rx)) - 2, 512) :
                      dmx_data'[i] = PayloadOf(rx)[i + 2]
                /\ packet_count' = packet_count + 1
                /\ packets_received' = packets_received + 1]_vars

\* the frame whose end byte is 0 instead of 0xE7 was processed
C9_Witness ==
    /\ Accepted(message)
    /\ message.data = <<0, 7, 33>>
    /\ dmx_data[1] = 33
    /\ packets_received >= 1

\* the frame whose end byte had not arrived was processed
C9_WitnessMissing ==
    /\ Accepted(message)
    /\ message.data = <<0, 0, 48, 49>>
    /\ message.rest = <<>>
    /\ dmx_data[1] = 48

\* C10: poll() calls _read_message at most 10 times; the count it returns
\* is between 0 and 10 and is the number of packets accepted in this call,
\* which is what packet_count grew by.
C10_DrainBound ==
    /\ poll_i \in 0..10
    /\ packets_received \in 0..10
    /\ packets_received <= poll_i
    /\ packet_count = poll_count0 + packets_received

\* a backlog of 11 frames: poll() returned 10 and left the eleventh waiting
C10_Witness ==
    /\ pc = "polled"
    /\ poll_i = 10
    /\ packets_received = 10
    /\ packet_count = poll_count0 + 10
    /\ WellFormed(rx)

----------------------------------------------------------------------------
(* Properties of the flame banks and the frame scheduler                   *)

Black == <<0, 0, 0>>
\* the byte on the bank's intensity channel when set_intensity was called
\* in this frame (the Channel Array does not change between poll and pace)
RawIntensity(b) == get_channel(7 + b)
EmitsBlack(b) == \A p \in PixelsOfBank[b] : pixel_colors[b][p] = Black
SomeUniverseLit(data) == \E u \in DOMAIN data : data[u] # ZeroFrame
AllUniversesDark(data) == \A u \in DOMAIN data : data[u] = ZeroFrame

\* C3, as stated: whenever the raw intensity byte just applied to a bank is
\* 0, the bank's next update() emits (0,0,0) for every pixel it owns.
C3_Original ==
    pc = "pace" => \A b \in BankIds : RawIntensity(b) = 0 => EmitsBlack(b)

\* C3, amended: whenever a bank's smoothed intensity is zero after
\* set_intensity has been applied, its next update() emits (0,0,0) for every
\* pixel it owns, whatever the synthesizers would return.
C3_ZeroIntensityIsBlack ==
    pc = "pace" =>
        \A b \in BankIds : flame_banks[b].intensity.n <= 0 => EmitsBlack(b)

\* a frame in which bank 0, commanded 0 and at intensity 0, is black while
\* another bank, lit, emits a colour of its synthesizers
C3_Witness ==
    /\ pc = "pace"
    /\ RawIntensity(0) = 0
    /\ flame_banks[0].intensity.n = 0
    /\ EmitsBlack(0)
    /\ \E b \in BankIds : IsOn(flame_banks[b]) /\ ~EmitsBlack(b)

\* C5: on every way out of the frame loop the sender holds an all-zero
\* frame for every universe before it is stopped, and it is stopped before
\* the serial port is closed; from then on no frame other than zeros is the
\* last one handed over.
C5_DarkBeforeTeardown ==
    /\ DOMAIN sender_data = DOMAIN universe_data
    /\ pc \in {"stop_sender", "stop_close", "done"} => AllUniversesDark(sender_data)
    /\ ~sender_running => AllUniversesDark(sender_data) /\ pc \in {"stop_close", "done"}
    /\ ~port_open => ~sender_running /\ pc = "done"
    /\ pc = "done" => ~port_open /\ ~sender_running /\ ~running

\* the loop was interrupted while a lit frame was out: after stop() the
\* sender holds zeros, is stopped, and the port is closed
C5_Witness ==
    /\ pc = "done"
    /\ exits = "interrupt"
    /\ SomeUniverseLit(universe_data)
    /\ AllUniversesDark(sender_data)
    /\ ~sender_running
    /\ ~port_open

\* C6: a SerialException inside poll() ends the drain without leaving the
\* loop: poll() returns the packets accepted before it, the Channel Array
\* and packet_count keep what the completed messages left, and the frame goes
\* on through _update_from_dmx to _render_frame.
C6_FaultTolerated ==
    [][/\ (pc = "polling" /\ poll_fault') =>
             /\ pc' = "polled"
             /\ exits' = exits
             /\ packets_received' = packets_received
             /\ packets_received' = packet_count' - poll_count0'
             /\ dmx_data' = dmx_data
             /\ packet_count' = packet_count
             /\ last_packet_time' = last_packet_time
       /\ (poll_fault /\ pc = "polled" /\ pc' # pc /\ exits' = exits) =>
             /\ pc' = "render"
             /\ dmx_data' = dmx_data
       /\ (poll_fault /\ pc = "render" /\ pc' # pc /\ exits' = exits) =>
             /\ pc' = "pace"
             /\ sender_data' = universe_data']_vars

\* a read failed after a packet had been accepted in the same poll(), and
\* the frame was rendered from it: a lit frame is out
C6_Witness ==
    /\ pc = "pace"
    /\ poll_fault
    /\ packets_received >= 1
    /\ message.kind = "fault"
    /\ SomeUniverseLit(sender_data)

----------------------------------------------------------------------------
(* The console moves faders: the parameter smoother under every kind of    *)
(* move, frame after frame (poll, then _update_from_dmx)                   *)

\* channels 1..19 of a look: speed, colour and wind together, master,
\* bank 1 and bank 13
LookOf(speed, master, bank1, bank13) ==
    <<speed, speed, speed, 0, 0, master, bank1,
      0, 0, 0, 0, 0, 0, 0, 0, 0, 0, 0, bank13>>

\* fader positions just inside and just outside the hysteresis band around
\* a target, and the two ends of the fader
Near(t) == {t - 6, t - 5, t + 5, t + 6, 0, 255} \cap Byte
SpeedChoices == {128, 131}

\* poll() finds exactly one received-DMX frame carrying `look` and drains
\* it: one message processed, then no message, break
PollLookWith(look) ==
    LET frame == Frame(LABEL_RECEIVED_DMX, <<0, 0>> \o look)
        m == read_message(frame, 0)
        r == process_dmx_packet(m.data, now)
    IN  /\ polls < MaxFrames
        /\ port_open
        /\ rx = <<>>
        /\ m.kind = "msg" /\ m.label = LABEL_RECEIVED_DMX /\ r.ok
        /\ rx' = <<>>
        /\ dmx_data' = r.dmx_data
        /\ packet_count' = r.packet_count
        /\ last_status' = r.last_status
        /\ last_packet_time' = r.last_packet_time
        /\ poll_i' = 2
        /\ packets_received' = 1
        /\ message' = read_message(m.rest, 0)
        /\ poll_rx0' = frame
        /\ poll_arrived' = FALSE
        /\ poll_count0' = packet_count
        /\ poll_reads' = m.reads + read_message(m.rest, 0).reads
        /\ poll_fault' = FALSE
        /\ polls' = polls + 1
        /\ frame_start' = now
        /\ running' = TRUE
        /\ pc' = "polled"
        /\ now' = now + 1
        /\ UNCHANGED <<port_open, frame_count, param_vars, output_vars>>
        /\ UNCHANGED <<arrivals, faults, exits, bench_vars>>

\* the next frame of a loop whose rendering is left aside: the clock moves
\* on and the console is somewhere near where it was, or at an end
PollLook ==
    /\ pc \in {"idle", "render"}
    /\ \E f \in SpeedChoices :
       \E m \in Near(target_master_intensity) :
       \E b \in Near(flame_banks[0].target_intensity) :
          PollLookWith(LookOf(f, m, b, 0))

NextSmoother ==
    \/ PollLook
    \/ update_from_dmx

SpecSmoother == InitDecoder /\ [][NextSmoother]_vars

----------------------------------------------------------------------------
(* Properties of the parameter smoother                                    *)

\* _update_from_dmx runs
UpdateStep == pc = "polled" /\ pc' = "render"
\* |v/255 - t/255| <= 0.02
WithinBand(v, t) == 50 * Abs(v - t) <= 255
HysteresisTarget(v, t) == IF WithinBand(v, t) THEN t ELSE v
\* new = old + (t/255 - old) * 0.3, that is 10 * new = 7 * old + 3 * t/255
SmoothedFrom(new, old, t) ==
    /\ new.k <= old.k + 1
    /\ new.n * Pow10(old.k + 1 - new.k) = 7 * old.n + 3 * t * Pow10(old.k)
\* the parameter value x is the byte v over 255
IsByteOver255(x, v) == x.n = v * Pow10(x.k)

LimbBase == 10000

Limb(x, i) == IF i <= Len(x) THEN x[i] ELSE 0

RECURSIVE Carry(_, _)
Carry(x, c) ==
    IF x = <<>>
    THEN IF c = 0 THEN <<>> ELSE <<c % LimbBase>> \o Carry(<<>>, c \div LimbBase)
    ELSE <<(x[1] + c) % LimbBase>> \o Carry(Tail(x), (x[1] + c) \div LimbBase)

RECURSIVE Trim(_)
Trim(x) == IF x # <<>> /\ x[Len(x)] = 0 THEN Trim(SubSeq(x, 1, Len(x) - 1)) ELSE x

LongOf(v) == Carry(<<>>, v)

LongScale(x, m) == Trim(Carry([i \in 1..Len(x) |-> x[i] * m], 0))

LongAdd(x, y) ==
    LET len == IF Len(x) > Len(y) THEN Len(x) ELSE Len(y)
    IN  Trim(Carry([i \in 1..len |-> Limb(x, i) + Limb(y, i)], 0))

RECURSIVE LongShift(_, _)
LongShift(x, n) == IF n = 0 THEN x ELSE LongShift(LongScale(x, 10), n - 1)

RECURSIVE LessFrom(_, _, _)
\* x < y, comparing limbs i, i-1, .. 1
LessFrom(x, y, i) ==
    IF i = 0 THEN FALSE
    ELSE IF Limb(x, i) # Limb(y, i) THEN Limb(x, i) < Limb(y, i)
    ELSE LessFrom(x, y, i - 1)

LongLess(x, y) == LessFrom(x, y, IF Len(x) > Len(y) THEN Len(x) ELSE Len(y))

LongLeq(x, y) == ~LongLess(y, x)

RECURSIVE Borrow(_, _, _, _)
\* limbs i.. of x - y - b, for x >= y
Borrow(x, y, i, b) ==
    IF i > Len(x) THEN <<>>
    ELSE LET d == x[i] - Limb(y, i) - b
         IN  IF d < 0 THEN <<d + LimbBase>> \o Borrow(x, y, i + 1, 1)
                      ELSE <<d>> \o Borrow(x, y, i + 1, 0)

LongDist(x, y) == IF LongLess(x, y) THEN Trim(Borrow(y, x, 1, 0)) ELSE Trim(Borrow(x, y, 1, 0))

\* intensity += (target_intensity - intensity) * gain/10, keep = 10 - gain
SmoothLongWith(x, n, target_byte, keep, gain) ==
    LongAdd(LongScale(x, keep), LongShift(LongOf(gain * target_byte), n))

SmoothLong_slow(x, n, target_byte) == SmoothLongWith(x, n, target_byte, 8, 2)

SmoothLong_tenth(x, n, target_byte) == SmoothLongWith(x, n, target_byte, 9, 1)

SmoothLong(x, n, target_byte) == SmoothLongWith(x, n, target_byte, 7, 3)

MaxSmoothSteps == 14

StartBytes == {0, 1, 127, 128, 254, 255}

\* a bank whose intensity stands at start/255 is sent the fader value target
TrialBegin ==
    /\ smoother = <<>>
    /\ \E s \in StartBytes : \E t \in Byte :
          smoother' = [start |-> s, target |-> t, intensity |-> LongOf(s), updates |-> 0]
    /\ UNCHANGED <<decoder_vars, poll_vars, sched_vars, param_vars, output_vars>>
    /\ UNCHANGED <<aux_vars, probe, pixel, show, pacer>>

\* set_intensity(target) again: the target stays, the intensity moves
SmoothStep ==
    /\ smoother # <<>>
    /\ smoother.updates < MaxSmoothSteps
    /\ ~ExceedsHysteresis(smoother.target, smoother.target)
    /\ smoother' = [smoother EXCEPT
          !.intensity = SmoothLong(smoother.intensity, smoother.updates, smoother.target),
          !.updates = smoother.updates + 1]
    /\ UNCHANGED <<decoder_vars, poll_vars, sched_vars, param_vars, output_vars>>
    /\ UNCHANGED <<aux_vars, probe, pixel, show, pacer>>

NextConverge == TrialBegin \/ SmoothStep

SpecConverge == InitDecoder /\ [][NextConverge]_vars

\* ---------------------------------------------------------------------
\* Properties of repeated smoothing
\* ---------------------------------------------------------------------

\* |intensity - target|, times 255 * 10^updates
SmootherError ==
    LongDist(smoother.intensity, LongShift(LongOf(smoother.target), smoother.updates))

StepSize == Abs(smoother.start - smoother.target)

\* the error is at most num/den of whole (whole/255 in units of one)
ErrorWithin(num, den, whole) ==
    LongLeq(LongScale(SmootherError, den), LongShift(LongOf(num * whole), smoother.updates))

\* C13: with the target held fixed, 14 applications of
\* current += (target - current) * 0.3 bring current to within 0.01 of the
\* target, from every starting value in [0,1].
C13_ConvergesIn14 ==
    (smoother # <<>> /\ smoother.updates >= 14) => ErrorWithin(1, 100, 255)

C13_Witness ==
    /\ smoother # <<>>
    /\ smoother.updates = 14
    /\ smoother.start = 0 /\ smoother.target = 255
    /\ smoother.intensity # LongShift(LongOf(255), 14)

\* C14 as stated: after fewer than 9 updates (8 are enough) the smoothed
\* value is within 5% of the step size from the target.
C14_Original ==
    (smoother # <<>> /\ smoother.updates >= 8) => ErrorWithin(1, 20, StepSize)

\* C14: the smoothed value is within 5% of the step size from the ninth
\* update on, and after eight updates of a real step it is not yet.
C14_SettlesInNine ==
    smoother # <<>> =>
       /\ smoother.updates >= 9 => ErrorWithin(1, 20, StepSize)
       /\ (smoother.updates = 8 /\ StepSize > 0) => ~ErrorWithin(1, 20, StepSize)

C14_Witness ==
    /\ smoother # <<>>
    /\ smoother.updates = 9
    /\ smoother.start = 0 /\ smoother.target = 255
    /\ ErrorWithin(1, 20, StepSize)
    /\ ~ErrorWithin(1, 25, StepSize)

\* ---------------------------------------------------------------------
\* Where one pixel goes: the address arithmetic of the pixel loop, run for
\* a single pixel of the strip.
\* ---------------------------------------------------------------------

ValidPixels == 0..(total_pixels - 1)

ChannelsOfPixel(pixel_idx) ==
    {ChannelOffset(pixel_idx), ChannelOffset(pixel_idx) + 1, ChannelOffset(pixel_idx) + 2}

MapPixel ==
    /\ probe = <<>>
    /\ \E pixel_idx \in ValidPixels :
          probe' = [pixel_idx |-> pixel_idx,
                    univ |-> UnivOf(pixel_idx),
                    channel_offset |-> ChannelOffset(pixel_idx)]
    /\ UNCHANGED <<decoder_vars, poll_vars, sched_vars, param_vars, output_vars>>
    /\ UNCHANGED <<aux_vars, smoother, pixel, show, pacer>>

NextMapping == MapPixel

SpecMapping == InitDecoder /\ [][NextMapping]_vars

\* C15: pixel -> (universe, offset) is injective on valid pixel indices:
\* distinct pixels never share a universe and an offset, their three bytes
\* never overlap, the universe is start + pixel div 170, the offset is
\* (pixel mod 170) * 3 and offset + 2 <= 509.
C15_MappingInjective ==
    probe # <<>> =>
       /\ probe.univ = OUTPUT_UNIVERSE_START + probe.pixel_idx \div 170
       /\ probe.channel_offset = (probe.pixel_idx % 170) * 3
       /\ probe.channel_offset + 2 <= 509
       /\ probe.univ \in DOMAIN universe_data
       /\ \A q \in ValidPixels \ {probe.pixel_idx} :
             \/ UnivOf(q) # probe.univ
             \/ ChannelsOfPixel(q) \cap ChannelsOfPixel(probe.pixel_idx) = {}

\* the last pixel of a universe, next to the first pixel of the following one
C15_Witness ==
    /\ probe # <<>>
    /\ probe.pixel_idx = 169
    /\ probe.univ = OUTPUT_UNIVERSE_START /\ probe.channel_offset = 507
    /\ UnivOf(170) = OUTPUT_UNIVERSE_START + 1 /\ ChannelOffset(170) = 0

\* ---------------------------------------------------------------------
\* Frames rendered one after another: each frame the console's look is
\* drained, the parameters are updated and the frame is rendered.
\* ---------------------------------------------------------------------

AllBanks(master, level) ==
    <<128, 128, 128, 0, 0, master>> \o [i \in 1..NumBanks |-> level]

RenderLooks ==
    {AllBanks(m, l) : m \in {0, 255}, l \in {0, 255}}
        \cup {LookOf(128, 255, 255, 0), LookOf(128, 255, 0, 255)}

PollLit ==
    /\ pc \in {"idle", "pace"}
    /\ \E look \in RenderLooks : PollLookWith(look)

\* every spacing from 150 on leaves each bank its first pixel only
MaxSpacing == 151

\* __init__ with another spacing: the banks' pixel_indices
BuildBanks ==
    /\ pc = "idle" /\ probe = <<>>
    /\ \E step \in 1..MaxSpacing :
          probe' = [spacing |-> step,
                    pixel_indices |-> [b \in BankIds |-> PixelIndices(b, step)]]
    /\ pc' = "built"
    /\ UNCHANGED <<decoder_vars, poll_vars, now, frame_start, frame_count, running>>
    /\ UNCHANGED <<param_vars, output_vars, aux_vars, smoother, pixel, show, pacer>>

NextRender == PollLit \/ update_from_dmx \/ render_frame \/ BuildBanks

InitRender == InitWith({TOTAL_PIXELS, PartStrip})

SpecRender == InitRender /\ [][NextRender]_vars

\* ---------------------------------------------------------------------
\* Properties of the rendered buffers
\* ---------------------------------------------------------------------

Rendered == pc = "pace"

\* the bank visited last among those holding pixel p
OwnerOf(p) == CHOOSE b \in BankIds : p \in PixelsOfBank[b] /\
                 \A c \in BankIds : p \in PixelsOfBank[c] => c <= b

BankPixels == UNION {PixelsOfBank[b] : b \in BankIds}

\* what this frame's colours and master intensity put on channel ch of u
ExpectedByte(u, ch) ==
    LET here == {p \in BankPixels : UnivOf(p) = u /\ ch - ChannelOffset(p) \in 0..2}
    IN  IF here = {} THEN 0
        ELSE LET p == CHOOSE q \in here : TRUE
             IN  ScaleInt(pixel_colors[OwnerOf(p)][p][ch - ChannelOffset(p) + 1],
                          master_intensity)

\* C16: after every render each channel of each managed buffer is what
\* this frame's pixel colours and master intensity alone determine (zero
\* where no pixel is written), whatever the frame before left there, and
\* the transport is handed exactly these buffers.
C16_BuffersFromFrameOnly ==
    Rendered =>
       /\ \A u \in DOMAIN universe_data :
             /\ \A p \in {q \in BankPixels : UnivOf(q) = u} : \A i \in 0..2 :
                   ChannelByte(universe_data[u], ChannelOffset(p) + i)
                      = ExpectedByte(u, ChannelOffset(p) + i)
             /\ \A ch \in DOMAIN universe_data[u] :
                   universe_data[u][ch] = ExpectedByte(u, ch)
       /\ sender_data = universe_data

\* a second frame in which bank 1, lit in both frames, has a black pixel
\* beside a lit one
C16_Witness ==
    /\ Rendered /\ polls = 2
    /\ flame_banks[0].target_intensity = 255
    /\ flame_banks[0].intensity = [n |-> 13005, k |-> 2]
    /\ master_intensity = FromByte(255)
    /\ ChannelByte(universe_data[UnivOf(0)], ChannelOffset(0)) = 0
    /\ ChannelByte(universe_data[UnivOf(PixelSpacing)], ChannelOffset(PixelSpacing)) > 0

LastUniverse == OUTPUT_UNIVERSE_START + NumUniverses(total_pixels) - 1

\* first channel after the last pixel, in the last universe
EndOfStrip == (total_pixels - LedsPerUniverse * (NumUniverses(total_pixels) - 1)) * 3

\* C17 as stated: ceil(total_pixels / 170) universes are generated, and in
\* every rendered frame the channels of the last universe beyond the last
\* pixel and bytes 510 and 511 of every universe are zero.
C17_Original ==
    /\ Cardinality(DOMAIN universe_data) = (total_pixels + 169) \div 170
    /\ Rendered =>
          /\ \A u \in DOMAIN universe_data :
                ChannelByte(universe_data[u], 510) = 0 /\ ChannelByte(universe_data[u], 511) = 0
          /\ \A ch \in EndOfStrip..511 : ChannelByte(universe_data[LastUniverse], ch) = 0

GapPixels == 875..1019

\* C18: whatever the spacing, no bank owns a pixel of 875..1019, and in
\* every rendered frame the channels of those pixels (universe index 5,
\* channels 75..509) are zero in the buffers and in what the transport holds.
C18_GapStaysDark ==
    /\ (pc = "built") => \A b \in BankIds : probe.pixel_indices[b] \cap GapPixels = {}
    /\ \A p \in GapPixels : UnivOf(p) = OUTPUT_UNIVERSE_START + 5
                             /\ ChannelOffset(p) = (p - 850) * 3
    /\ Rendered => \A ch \in 75..509 :
          /\ ChannelByte(universe_data[OUTPUT_UNIVERSE_START + 5], ch) = 0
          /\ ChannelByte(sender_data[OUTPUT_UNIVERSE_START + 5], ch) = 0

\* the banks on both sides of the gap are lit in a rendered frame
C18_Witness ==
    /\ Rendered
    /\ IsOn(flame_banks[6]) /\ IsOn(flame_banks[7])
    /\ ChannelByte(universe_data[UnivOf(BankStart(6))], ChannelOffset(BankStart(6))) > 0
    /\ ChannelByte(universe_data[UnivOf(BankStart(7))], ChannelOffset(BankStart(7))) > 0
    /\ BankStart(6) + BankSize(6) = 875 /\ BankStart(7) = 1020

\* ---------------------------------------------------------------------
\* SmoothFirePixel, one pixel taken alone.  Times are counted in units of
\* 25 ms; what self.rng returns is an input drawn from the ends of the
\* ranges the code draws from; math.sin is not computed, the variation
\* (sin + 1) / 2 is an input in quarters.
\* ---------------------------------------------------------------------

WhiteHot == <<255, 255, 200>>
BlueFlame == <<100, 150, 255>>

Clamp(lo, hi, x) == IF x < lo THEN lo ELSE IF x > hi THEN hi ELSE x

\* _generate_fire_color: draw.special is the outcome of the two
\* rng.random() tests; draw.intensity is uniform(0.6, 1.0) in tenths,
\* draw.red is randint(245, 255), draw.green_variation is gauss(0, 25),
\* draw.blue is randint(-5, 10); color_shift is a byte over 255
generate_fire_color(draw, color_shift) ==
    IF draw.special = "white" THEN WhiteHot
    ELSE IF draw.special = "blue" THEN BlueFlame
    ELSE LET green255 == (127 + draw.green_variation) * 255 - 60 * (2 * color_shift - 255)
             green == (Clamp(50 * 255, 200 * 255, green255) * draw.intensity) \div 2550
             blue == Clamp(0, 30, 15 + draw.blue)
         IN  <<draw.red, green, blue>>

\* calls of self.rng that _generate_fire_color makes: random() once or
\* twice, then uniform, randint, gauss, randint
ColorCalls(draw) == IF draw.special # "none" THEN 2 ELSE 5

ColorDraws ==
    {[special |-> "white", intensity |-> 10, red |-> 255, green_variation |-> 0, blue |-> 0],
     [special |-> "blue", intensity |-> 10, red |-> 255, green_variation |-> 0, blue |-> 0],
     [special |-> "none", intensity |-> 10, red |-> 255, green_variation |-> 100, blue |-> 10],
     [special |-> "none", intensity |-> 6, red |-> 245, green_variation |-> -100, blue |-> -5]}

\* lerp_color with t = num / den: t is clamped to [0, 1], int() truncates
lerp_color_unclamped(c1, c2, num, den) ==
    [i \in 1..3 |-> c1[i] + ((c2[i] - c1[i]) * num) \div den]

lerp_color(c1, c2, num, den) ==
    LET n == Clamp(0, den, num)
    IN  [i \in 1..3 |-> c1[i] + ((c2[i] - c1[i]) * n) \div den]

\* t * t * (3.0 - 2.0 * t) for t = elapsed / duration, times duration^3
SmoothstepNum(elapsed, duration) == elapsed * elapsed * (3 * duration - 2 * elapsed)

Cube(x) == x * x * x

\* the triangle wave of an active gust, as [n, d] for n / d; gust_intensity
\* is in tenths
wind_multiplier_unshifted(gust_elapsed, gust_duration, gust_intensity) ==
    [n |-> IF 2 * gust_elapsed < gust_duration
           THEN 10 * gust_duration - 2 * gust_elapsed * (10 - gust_intensity)
           ELSE gust_intensity * gust_duration + 2 * gust_elapsed * (10 - gust_intensity),
     d |-> 10 * gust_duration]

wind_multiplier(gust_elapsed, gust_duration, gust_intensity) ==
    [n |-> IF 2 * gust_elapsed < gust_duration
           THEN 10 * gust_duration - 2 * gust_elapsed * (10 - gust_intensity)
           ELSE gust_intensity * gust_duration
                   + (2 * gust_elapsed - gust_duration) * (10 - gust_intensity),
     d |-> 10 * gust_duration]

One == [n |-> 1, d |-> 1]

\* gusts whenever the wind parameter is not zero
GustsEnabled_positive(sporadic_flicker) == sporadic_flicker > 0

\* sporadic_flicker > 0.01
GustsEnabled(sporadic_flicker) == 100 * sporadic_flicker > 255

\* SmoothFirePixel.__init__: draw.color is the first target colour's draw,
\* the other fields are the uniform() draws.  flicker_intensity is held
\* over 510 (255 is the default 0.5), color_shift and sporadic_flicker over
\* 255, base_intensity, intensity_speed and wind_gust_intensity in tenths,
\* intensity_phase in thousandths.  rng_calls counts the calls made of
\* self.rng, which is where random.Random(seed) stands in its sequence.
NewPixel(draw, current_time) ==
    [rng_calls |-> ColorCalls(draw.color) + 4,
     flicker_intensity |-> 255, color_shift |-> 0, sporadic_flicker |-> 0,
     current_color |-> <<0, 0, 0>>,
     target_color |-> generate_fire_color(draw.color, 0),
     transition_start_time |-> current_time,
     transition_duration |-> draw.duration,
     base_intensity |-> draw.base_intensity,
     intensity_phase |-> draw.intensity_phase,
     intensity_speed |-> draw.intensity_speed,
     wind_gust_active |-> FALSE,
     wind_gust_intensity |-> 10,
     wind_gust_start_time |-> 0,
     wind_gust_duration |-> 0,
     \* the locals of the last update()
     elapsed |-> 0, gust_elapsed |-> -1, in_gust |-> FALSE,
     wind |-> One, lerped |-> <<0, 0, 0>>, out |-> <<0, 0, 0>>]

\* a transition that is over only after its duration has passed
Expires_strict(fire_pixel, current_time) ==
    current_time - fire_pixel.transition_start_time > fire_pixel.transition_duration

\* elapsed >= self.transition_duration
Expires(fire_pixel, current_time) ==
    current_time - fire_pixel.transition_start_time >= fire_pixel.transition_duration

\* SmoothFirePixel.update(current_time).  draw.color and draw.duration are
\* used when the transition has run out (a duration of 0 is never drawn),
\* draw.variation is (sin(phase) + 1) / 2 in quarters, draw.gust is <<>> or
\* the duration and intensity of a gust that starts now.
pixel_update(p, current_time, draw) ==
    LET elapsed == current_time - p.transition_start_time
        expired == Expires(p, current_time)
        current_color == IF expired THEN p.target_color ELSE p.current_color
        target_color == IF expired THEN generate_fire_color(draw.color, p.color_shift)
                        ELSE p.target_color
        is_flash == target_color = WhiteHot \/ target_color = BlueFlame
        \* duration * (2.0 - flicker_intensity)
        transition_duration ==
            IF ~expired THEN p.transition_duration
            ELSE IF is_flash THEN draw.duration
            ELSE (draw.duration * (1020 - p.flicker_intensity)) \div 510
        lerped == lerp_color(current_color, target_color,
                             SmoothstepNum(elapsed, transition_duration),
                             Cube(transition_duration))
        enabled == GustsEnabled(p.sporadic_flicker)
        triggered == enabled /\ ~p.wind_gust_active /\ draw.gust # <<>>
        active == p.wind_gust_active \/ triggered
        gust_start == IF triggered THEN current_time ELSE p.wind_gust_start_time
        gust_duration == IF triggered THEN draw.gust.duration ELSE p.wind_gust_duration
        gust_intensity == IF triggered THEN draw.gust.intensity ELSE p.wind_gust_intensity
        gust_elapsed == current_time - gust_start
        during == enabled /\ active /\ gust_elapsed < gust_duration
        wind == IF during THEN wind_multiplier(gust_elapsed, gust_duration, gust_intensity)
                ELSE One
        \* base_intensity * (0.6 + 0.4 * variation) * wind_multiplier,
        \* over 400 * wind.d
        weight == p.base_intensity * (24 + 4 * draw.variation) * wind.n
        \* calls of self.rng: the new colour and its duration, the gust test
        \* and the gust's duration and intensity
        calls == (IF ~expired THEN 0
                  ELSE ColorCalls(draw.color) + (IF is_flash THEN 1 ELSE 2))
                 + (IF enabled /\ ~p.wind_gust_active THEN 1 ELSE 0)
                 + (IF triggered THEN 2 ELSE 0)
        Dim(c) == (c * weight) \div (400 * wind.d)
    IN  [p EXCEPT
           !.rng_calls = @ + calls,
           !.current_color = current_color,
           !.target_color = target_color,
           !.transition_start_time = IF expired THEN current_time ELSE @,
           !.transition_duration = transition_duration,
           !.intensity_phase = @ + p.intensity_speed,
           !.wind_gust_active = IF enabled THEN during ELSE @,
           !.wind_gust_start_time = gust_start,
           !.wind_gust_duration = gust_duration,
           !.wind_gust_intensity = gust_intensity,
           !.elapsed = elapsed,
           !.gust_elapsed = IF enabled /\ active THEN gust_elapsed ELSE -1,
           !.in_gust = during,
           !.wind = wind,
           !.lerped = lerped,
           !.out = <<Dim(lerped[1]), Dim(lerped[2]), Dim(lerped[3])>>]

\* what the console has set on the bank and the controller: bank intensity
\* and master intensity as smoothed values, the three global parameters
BenchLevels == {FromByte(255), Smooth(FromByte(0), 255), Smooth(FromByte(255), 0)}

BenchBanks ==
    {[intensity |-> FromByte(255), master |-> FromByte(255),
      flicker |-> 0, color_shift |-> 0, sporadic |-> 255],
     [intensity |-> Smooth(FromByte(0), 255), master |-> Smooth(FromByte(255), 0),
      flicker |-> 255, color_shift |-> 255, sporadic |-> 255],
     [intensity |-> FromByte(255), master |-> Smooth(FromByte(0), 255),
      flicker |-> 255, color_shift |-> 0, sporadic |-> 0]}

PixelSeeds ==
    {[duration |-> 8, base_intensity |-> 9, intensity_phase |-> 0, intensity_speed |-> 5],
     [duration |-> 60, base_intensity |-> 4, intensity_phase |-> 6280, intensity_speed |-> 30]}

GustDraws ==
    {[duration |-> 2, intensity |-> 1], [duration |-> 8, intensity |-> 8],
     [duration |-> 16, intensity |-> 1]}

FrameSteps == {1, 4}

MaxPixelUpdates == 3

ScaleColor(c, x) == <<ScaleInt(c[1], x), ScaleInt(c[2], x), ScaleInt(c[3], x)>>

\* FlameBank.update for one of the bank's pixels, the bank's intensity
\* being level: an off bank returns black and leaves the pixel alone
bank_update_pixel_eager(bank, level, fire_pixel, current_time, draw) ==
    LET set == [fire_pixel EXCEPT !.flicker_intensity = 2 * bank.flicker,
                                  !.color_shift = bank.color_shift,
                                  !.sporadic_flicker = bank.sporadic]
        after == pixel_update(set, current_time, draw)
    IN  [fire_pixel |-> after, color |-> ScaleColor(after.out, level)]

bank_update_pixel(bank, level, fire_pixel, current_time, draw) ==
    IF level.n <= 0
    THEN [fire_pixel |-> fire_pixel, color |-> <<0, 0, 0>>]
    ELSE LET set == [fire_pixel EXCEPT !.flicker_intensity = 2 * bank.flicker,
                                       !.color_shift = bank.color_shift,
                                       !.sporadic_flicker = bank.sporadic]
             after == pixel_update(set, current_time, draw)
         IN  [fire_pixel |-> after, color |-> ScaleColor(after.out, level)]

\* a bank with one pixel is built at time 0
PixelCreate ==
    /\ pixel = <<>>
    /\ \E seed \in PixelSeeds : \E color \in ColorDraws : \E bank \in BenchBanks :
          pixel' = [fire_pixel |-> NewPixel([color |-> color] @@ seed, 0),
                    bank |-> bank, level |-> FromByte(0), clock |-> 0, updates |-> 0,
                    written |-> <<0, 0, 0>>]
    /\ UNCHANGED <<decoder_vars, poll_vars, sched_vars, param_vars, output_vars>>
    /\ UNCHANGED <<aux_vars, smoother, probe, show, pacer>>

\* one frame for this pixel: the bank's intensity is at its level or at
\* zero; FlameBank.update sets the parameters, calls update(current_time)
\* and applies the bank intensity, _render_frame applies the master
\* intensity and writes the three bytes
PixelFrame ==
    /\ pixel # <<>>
    /\ pixel.updates < MaxPixelUpdates
    /\ \E step \in FrameSteps : \E level \in {pixel.bank.intensity, FromByte(0)} :
       LET current_time == pixel.clock + step
           lit == ~(level.n <= 0)
           expired == current_time - pixel.fire_pixel.transition_start_time
                         >= pixel.fire_pixel.transition_duration
           may_gust == GustsEnabled(pixel.bank.sporadic)
                          /\ ~pixel.fire_pixel.wind_gust_active
       IN  \E color \in IF lit /\ expired THEN ColorDraws
                         ELSE {CHOOSE c \in ColorDraws : c.special = "white"} :
           \E duration \in IF ~(lit /\ expired) THEN {2}
                            ELSE IF color.special # "none" THEN {4, 10} ELSE {2, 100} :
           \E variation \in IF lit THEN {0, 4} ELSE {0} :
           \E gust \in IF lit /\ may_gust THEN {<<>>} \cup GustDraws ELSE {<<>>} :
              LET got == bank_update_pixel(pixel.bank, level, pixel.fire_pixel,
                            current_time,
                            [color |-> color, duration |-> duration,
                             variation |-> variation, gust |-> gust])
              IN  pixel' = [pixel EXCEPT
                     !.fire_pixel = got.fire_pixel,
                     !.level = level,
                     !.clock = current_time,
                     !.updates = @ + 1,
                     !.written = ScaleColor(got.color, pixel.bank.master)]
    /\ UNCHANGED <<decoder_vars, poll_vars, sched_vars, param_vars, output_vars>>
    /\ UNCHANGED <<aux_vars, smoother, probe, show, pacer>>

NextPixel == PixelCreate \/ PixelFrame

SpecPixel == InitDecoder /\ [][NextPixel]_vars

\* ---------------------------------------------------------------------
\* Properties of the pixel synthesizer
\* ---------------------------------------------------------------------

IsByteTriple(c) == \A i \in 1..3 : c[i] \in 0..255

C20_GustEnvelope ==
    pixel # <<>> =>
       LET p == pixel.fire_pixel
           e == p.gust_elapsed
           d == p.wind_gust_duration
           g == p.wind_gust_intensity
           w == p.wind
       IN  /\ p.in_gust =>
                 /\ 0 <= e /\ e < d
                 /\ e = 0 => w.n = w.d
                 /\ 2 * e = d => 10 * w.n = g * w.d
                 \* on the line from (0, 1) to (0.5, g)
                 /\ 2 * e < d => (w.d - w.n) * 10 * d = w.d * 2 * e * (10 - g)
                 \* on the line from (0.5, g) to (1, 1)
                 /\ 2 * e >= d => (10 * w.n - g * w.d) * d = w.d * (2 * e - d) * (10 - g)
                 /\ g * w.d <= 10 * w.n /\ w.n <= w.d
           /\ ~p.in_gust => w = One
           /\ (e >= 0 /\ e >= d) => (w = One /\ ~p.wind_gust_active)

C20_Witness ==
    /\ pixel # <<>>
    /\ pixel.fire_pixel.in_gust
    /\ 2 * pixel.fire_pixel.gust_elapsed = pixel.fire_pixel.wind_gust_duration
    /\ pixel.fire_pixel.wind_gust_intensity = 1
    /\ 10 * pixel.fire_pixel.wind.n = pixel.fire_pixel.wind.d
    /\ pixel.written # <<0, 0, 0>>

\* ---------------------------------------------------------------------
\* Properties of a bank's frame
\* ---------------------------------------------------------------------

FrameStep == pixel # <<>> /\ pixel' # <<>> /\ pixel'.updates = pixel.updates + 1

\* C21: in a frame in which the bank's intensity is zero, the bank returns
\* (0,0,0) for the pixel and nothing of the pixel's state changes: colours,
\* transition start and duration, oscillation phase, gust state.
C21_OffBankLeavesPixels ==
    [][(FrameStep /\ pixel'.level.n <= 0) =>
          /\ pixel'.fire_pixel = pixel.fire_pixel
          /\ pixel'.written = <<0, 0, 0>>]_vars

\* an off frame of a pixel that was synthesized before, its transition
\* run out while the bank was off
C21_Witness ==
    /\ pixel # <<>>
    /\ pixel.updates >= 2
    /\ pixel.level.n <= 0
    /\ pixel.fire_pixel.out # <<0, 0, 0>>
    /\ pixel.written = <<0, 0, 0>>
    /\ pixel.clock - pixel.fire_pixel.transition_start_time
          >= pixel.fire_pixel.transition_duration

\* C22: the banks created at setup own pairwise disjoint sets of pixel
\* indices, whatever the spacing, so no pixel's bytes are written by two
\* banks in a frame.
C22_BanksDisjoint ==
    /\ pc = "built" =>
          \A b \in BankIds : \A c \in BankIds \ {b} :
             probe.pixel_indices[b] \cap probe.pixel_indices[c] = {}
    /\ \A b \in BankIds : \A c \in BankIds \ {b} :
          \A p \in PixelsOfBank[b] : \A q \in PixelsOfBank[c] :
             UnivOf(p) # UnivOf(q) \/ ChannelsOfPixel(p) \cap ChannelsOfPixel(q) = {}

\* every pixel of every bank's range is owned: neighbouring banks meet
C22_Witness ==
    /\ pc = "built"
    /\ probe.spacing = 1
    /\ 124 \in probe.pixel_indices[0] /\ 125 \in probe.pixel_indices[1]
    /\ 1694 \in probe.pixel_indices[11] /\ 1695 \in probe.pixel_indices[12]

\* ---------------------------------------------------------------------
\* The threaded show controller (fire-effects/show_control.py): the sACN
\* receiver's thread runs control_callback, the render thread runs
\* _render_loop, and both use the banks' intensity without a lock.  Each
\* read and each write of bank.intensity is a step of its thread.  The
\* wind effect is left at intensity 0 (packets carry four channels), so
\* its modifier is 1.0.
\* ---------------------------------------------------------------------

ShowTotalPixels == 408
ShowBanks == 0..3
MaxControlPackets == 2

\* list(range(start_idx, end_idx, 51)), in order
ShowPixelsOf(bank_id) ==
    LET pixels_per_bank == ShowTotalPixels \div 4
        start_idx == bank_id * pixels_per_bank
        end_idx == IF bank_id < 3 THEN start_idx + pixels_per_bank ELSE ShowTotalPixels
        count == (end_idx - start_idx + 50) \div 51
    IN  [i \in 1..count |-> start_idx + (i - 1) * 51]

\* what fire_pixel.update returns is of no account here
ShowSynth == <<255, 127, 15>>

ShowPackets == {<<0, 0, 0, 0>>, <<255, 255, 128, 128>>}

\* FireShowControl.__init__ and start()
ShowStart ==
    /\ show = <<>>
    /\ show' = [intensity |-> [b \in ShowBanks |-> 0],
                running |-> TRUE,
                render_pc |-> "top", bank |-> 0, idx |-> 1, channel |-> 1,
                pixel_colors |-> <<>>, universe_data |-> <<>>, sent |-> <<>>,
                callback_pc |-> "idle", dmx_data |-> <<>>, i |-> 0,
                reads |-> [b \in ShowBanks |-> <<>>],
                frame_count |-> 0, packets |-> 0]
    /\ UNCHANGED <<decoder_vars, poll_vars, sched_vars, param_vars, output_vars>>
    /\ UNCHANGED <<aux_vars, smoother, probe, pixel, pacer>>

ShowStep(next) ==
    /\ show # <<>>
    /\ show' = next
    /\ UNCHANGED <<decoder_vars, poll_vars, sched_vars, param_vars, output_vars>>
    /\ UNCHANGED <<aux_vars, smoother, probe, pixel, pacer>>

\* the receiver thread delivers a packet of the control universe
control_callback ==
    /\ show # <<>> /\ show.callback_pc = "idle"
    /\ show.packets < MaxControlPackets
    /\ \E data \in ShowPackets :
          ShowStep([show EXCEPT !.callback_pc = "set", !.dmx_data = data, !.i = 0,
                                !.packets = @ + 1])

\* _handle_control_dmx: one pass of `for i in range(4)`,
\* flame_banks[i].set_intensity(dmx_data[i])
handle_control_dmx ==
    /\ show # <<>> /\ show.callback_pc = "set"
    /\ ShowStep([show EXCEPT
          !.intensity[show.i] = IF Len(show.dmx_data) > show.i
                                THEN show.dmx_data[show.i + 1] ELSE @,
          !.i = @ + 1,
          !.callback_pc = IF show.i = 3 THEN "idle" ELSE "set"])

\* while self.running: the buffers are cleared
render_loop_top ==
    /\ show # <<>> /\ show.render_pc = "top" /\ show.running
    /\ show.frame_count < MaxFrames
    /\ ShowStep([show EXCEPT !.render_pc = "update", !.bank = 0,
                             !.universe_data = <<>>, !.pixel_colors = <<>>,
                             !.reads = [b \in ShowBanks |-> <<>>]])

AfterBank(s) ==
    [s EXCEPT !.universe_data = @ \o s.pixel_colors,
              !.pixel_colors = <<>>,
              !.bank = @ + 1,
              !.render_pc = IF s.bank = 3 THEN "send" ELSE "update"]

\* FlameBank.update: `if self.intensity <= 0`
show_bank_update ==
    /\ show # <<>> /\ show.render_pc = "update"
    /\ LET v == show.intensity[show.bank]
           read == [show EXCEPT !.reads[show.bank] = Append(@, v)]
       IN  IF v <= 0
           THEN ShowStep(AfterBank([read EXCEPT
                   !.pixel_colors = [k \in DOMAIN ShowPixelsOf(show.bank) |-> <<0, 0, 0>>]]))
           ELSE ShowStep([read EXCEPT !.render_pc = "pixel", !.idx = 1, !.channel = 1,
                                      !.pixel_colors = <<>>])

\* one of r = int(r * self.intensity), g = ..., b = ... for the pixel at idx
show_scale ==
    /\ show # <<>> /\ show.render_pc = "pixel"
    /\ LET v == show.intensity[show.bank]
           value == (ShowSynth[show.channel] * v) \div 255
           read == [show EXCEPT !.reads[show.bank] = Append(@, v)]
           colors == IF show.channel = 1 THEN Append(show.pixel_colors, <<value>>)
                     ELSE [show.pixel_colors EXCEPT ![show.idx] = Append(@, value)]
           last == show.idx = Len(ShowPixelsOf(show.bank))
       IN  IF show.channel < 3
           THEN ShowStep([read EXCEPT !.pixel_colors = colors, !.channel = @ + 1])
           ELSE IF ~last
           THEN ShowStep([read EXCEPT !.pixel_colors = colors, !.channel = 1, !.idx = @ + 1])
           ELSE ShowStep(AfterBank([read EXCEPT !.pixel_colors = colors]))

\* self.sender[univ].dmx_data = data; frame_count += 1; time.sleep(1/60)
show_send ==
    /\ show # <<>> /\ show.render_pc = "send"
    /\ ShowStep([show EXCEPT !.sent = show.universe_data, !.frame_count = @ + 1,
                             !.render_pc = "top"])

NextShow ==
    \/ ShowStart \/ control_callback \/ handle_control_dmx
    \/ render_loop_top \/ show_bank_update \/ show_scale \/ show_send

SpecShow == InitDecoder /\ [][NextShow]_vars

\* C23 as stated: the callback does not change a bank's intensity while
\* the render loop is inside that bank's update, so within one frame the
\* bank's on/off test and the scaling of all its pixels use one value.
C23_Original ==
    show # <<>> =>
       \A b \in ShowBanks : \A j \in DOMAIN show.reads[b] :
          show.reads[b][j] = show.reads[b][1]

\* ---------------------------------------------------------------------
\* The pacing of run()'s loop.  Clock readings are in ticks of 1/600 s;
\* the work of an iteration (poll, update, render, reports) takes a
\* number of ticks that is an input, and time.sleep(x) returns after x or
\* a little later.
\* ---------------------------------------------------------------------

TicksPerSecond == 600
TARGET_FPS == 60
target_frame_time == TicksPerSecond \div TARGET_FPS

WorkTimes == {1, 9, 10, 11, 25}
Oversleep == {0, 1}
MaxPacedFrames == 3

\* a sleep measured against the schedule start_time + n * target_frame_time
SleepTime_schedule(start_time, count, started, ended) ==
    start_time + count * target_frame_time - ended

\* frame_time = time.time() - frame_start
\* sleep_time = target_frame_time - frame_time
SleepTime(start_time, count, started, ended) ==
    target_frame_time - (ended - started)

\* run() up to `while self.running`
PacerStart ==
    /\ pacer = <<>>
    /\ pacer' = [start_time |-> 0, now |-> 0, frame_count |-> 0,
                 frame_start |-> 0, frame_time |-> 0, sleep_time |-> 0, slept |-> 0,
                 previous_frame_time |-> 0]
    /\ UNCHANGED <<decoder_vars, poll_vars, sched_vars, param_vars, output_vars>>
    /\ UNCHANGED <<aux_vars, smoother, probe, pixel, show>>

\* one iteration of the loop
PacerIteration ==
    /\ pacer # <<>>
    /\ pacer.frame_count < MaxPacedFrames
    /\ \E work \in WorkTimes : \E over \in Oversleep :
       LET started == pacer.now
           count == pacer.frame_count + 1
           ended == started + work
           sleep_time == SleepTime(pacer.start_time, count, started, ended)
           slept == IF sleep_time > 0 THEN sleep_time + over ELSE 0
       IN  pacer' = [pacer EXCEPT
              !.frame_start = started,
              !.frame_count = count,
              !.frame_time = ended - started,
              !.sleep_time = sleep_time,
              !.slept = slept,
              !.now = ended + slept,
              !.previous_frame_time = pacer.frame_time]
    /\ UNCHANGED <<decoder_vars, poll_vars, sched_vars, param_vars, output_vars>>
    /\ UNCHANGED <<aux_vars, smoother, probe, pixel, show>>

NextPacer == PacerStart \/ PacerIteration

SpecPacer == InitDecoder /\ [][NextPacer]_vars

\* C24: each iteration sleeps for target period - iteration time when
\* that is positive and does not sleep otherwise; the sleep is decided by
\* the iteration's own duration alone, so after an overrun the next
\* frame's period is not shortened.
C24_NoDebt ==
    (pacer # <<>> /\ pacer.frame_count > 0) =>
       /\ pacer.sleep_time = target_frame_time - pacer.frame_time
       /\ pacer.frame_time < target_frame_time => pacer.slept >= pacer.sleep_time
       /\ pacer.frame_time >= target_frame_time => pacer.slept = 0
       /\ pacer.now - pacer.frame_start >= target_frame_time
       /\ pacer.now - pacer.frame_start >= pacer.frame_time

\* a short frame right after an overrun, behind the schedule, sleeps its
\* full remainder
C24_Witness ==
    /\ pacer # <<>>
    /\ pacer.frame_count = 2
    /\ pacer.previous_frame_time = 25
    /\ pacer.frame_time = 1
    /\ pacer.slept = 9
    /\ pacer.now > pacer.start_time + 2 * target_frame_time

\* ---------------------------------------------------------------------
\* Two pixels of one seed: the same random.Random(seed) sequence, the same
\* bank parameters, each updated at its own times (two runs, or two
\* objects of one run).  Where both stand at the same place of the rng
\* sequence and ask it for the same things they are given the same
\* draws; math.sin gives equal phases equal values.
\* ---------------------------------------------------------------------

TwinSteps == {1, 2, 8}
MaxTwinUpdates == 3
TwinSeeds == PixelSeeds
TwinColors == {c \in ColorDraws : c.special = "white" \/ c.intensity = 6}
TwinBanks == {b \in BenchBanks : b.flicker = 255}
TwinGusts == {g \in GustDraws : g.duration = 8}

WithBank(bank, fire_pixel) ==
    [fire_pixel EXCEPT !.flicker_intensity = 2 * bank.flicker,
                       !.color_shift = bank.color_shift,
                       !.sporadic_flicker = bank.sporadic]

MayGust(bank, fire_pixel) ==
    GustsEnabled(bank.sporadic) /\ ~fire_pixel.wind_gust_active

\* the draws an update() at current_time can be given, apart from the
\* variation
RngDraws(bank, fire_pixel, current_time) ==
    LET expired == Expires(fire_pixel, current_time)
        colors == IF expired THEN TwinColors
                  ELSE {CHOOSE c \in ColorDraws : c.special = "white"}
        Durations(color) == IF ~expired THEN {2}
                            ELSE IF color.special # "none" THEN {4} ELSE {100}
        gusts == IF MayGust(bank, fire_pixel) THEN {<<>>} \cup TwinGusts ELSE {<<>>}
    IN  UNION {{[color |-> c, duration |-> d, gust |-> g] : d \in Durations(c), g \in gusts}
                 : c \in colors}

\* self.rng = random.Random(seed): two pixels of one seed that have made
\* the same number of calls, and now make the same calls, get the same
\* values
SameRng_unseeded(bank, a, b, current_time) == FALSE

SameRng(bank, a, b, current_time) ==
    /\ a.rng_calls = b.rng_calls
    /\ Expires(a, current_time) = Expires(b, current_time)
    /\ MayGust(bank, a) = MayGust(bank, b)
    /\ a.wind_gust_active = b.wind_gust_active

TwinUpdate(bank, twin, current_time, rng, variation) ==
    LET after == pixel_update(WithBank(bank, twin.fire_pixel), current_time,
                              [variation |-> variation] @@ rng)
    IN  [fire_pixel |-> after, clock |-> current_time, updates |-> twin.updates + 1,
         out |-> after.out]

\* two SmoothFirePixel(idx, seed=idx) of one idx, the second made at the
\* same time as the first or a unit later
TwinCreate ==
    /\ pixel = <<>>
    /\ \E seed \in TwinSeeds : \E color \in TwinColors : \E bank \in TwinBanks :
       \E later \in {0, 1} :
          pixel' = [first |-> [fire_pixel |-> NewPixel([color |-> color] @@ seed, 0),
                               clock |-> 1, updates |-> 0, out |-> <<0, 0, 0>>],
                    second |-> [fire_pixel |-> NewPixel([color |-> color] @@ seed, later),
                                clock |-> 1, updates |-> 0, out |-> <<0, 0, 0>>],
                    bank |-> bank, created |-> <<0, later>>, in_step |-> TRUE]
    /\ UNCHANGED <<decoder_vars, poll_vars, sched_vars, param_vars, output_vars>>
    /\ UNCHANGED <<aux_vars, smoother, probe, show, pacer>>

IsTwin == pixel # <<>> /\ "first" \in DOMAIN pixel

\* both are updated with the same current_time and the same parameters
TwinFrameBoth ==
    /\ IsTwin
    /\ pixel.first.clock = pixel.second.clock
    /\ pixel.first.updates + pixel.second.updates + 1 < MaxTwinUpdates
    /\ \E step \in TwinSteps :
       LET current_time == pixel.first.clock + step
           a == pixel.first.fire_pixel
           b == pixel.second.fire_pixel
           same_rng == SameRng(pixel.bank, a, b, current_time)
           same_sin == a.intensity_phase = b.intensity_phase
       IN  \E rng_a \in RngDraws(pixel.bank, a, current_time) :
           \E rng_b \in IF same_rng THEN {rng_a} ELSE RngDraws(pixel.bank, b, current_time) :
           \E variation_a \in {0, 4} :
           \E variation_b \in IF same_sin THEN {variation_a} ELSE {0, 4} :
              pixel' = [pixel EXCEPT
                 !.first = TwinUpdate(pixel.bank, pixel.first, current_time,
                                      rng_a, variation_a),
                 !.second = TwinUpdate(pixel.bank, pixel.second, current_time,
                                       rng_b, variation_b)]
    /\ UNCHANGED <<decoder_vars, poll_vars, sched_vars, param_vars, output_vars>>
    /\ UNCHANGED <<aux_vars, smoother, probe, show, pacer>>

\* one of the two is updated, the other is not
TwinFrameOne ==
    /\ IsTwin
    /\ \E which \in {"first", "second"} :
       /\ pixel.first.updates + pixel.second.updates < MaxTwinUpdates
       /\ \E step \in TwinSteps :
          LET current_time == pixel[which].clock + step
          IN  \E rng \in RngDraws(pixel.bank, pixel[which].fire_pixel, current_time) :
              \E variation \in {0, 4} :
                 pixel' = [pixel EXCEPT
                    ![which] = TwinUpdate(pixel.bank, pixel[which], current_time,
                                          rng, variation),
                    !.in_step = FALSE]
    /\ UNCHANGED <<decoder_vars, poll_vars, sched_vars, param_vars, output_vars>>
    /\ UNCHANGED <<aux_vars, smoother, probe, show, pacer>>

NextTwin == TwinCreate \/ TwinFrameBoth \/ TwinFrameOne

SpecTwin == InitDecoder /\ [][NextTwin]_vars

\* C25 as stated: the oscillation is driven by the clock and not by the
\* number of update() calls: two runs of the same pixel that stand at the
\* same clock time have the same oscillation phase, hence multiplier.
C25_Original ==
    (IsTwin /\ pixel.created[1] = pixel.created[2]
            /\ pixel.first.clock = pixel.second.clock) =>
       pixel.first.fire_pixel.intensity_phase = pixel.second.fire_pixel.intensity_phase

OtherUntouched ==
    (IsTwin /\ IsTwin') =>
       /\ pixel'.first.updates = pixel.first.updates => pixel'.first = pixel.first
       /\ pixel'.second.updates = pixel.second.updates => pixel'.second = pixel.second

C27_Original ==
    pc = "render" => FirstMissing(DOMAIN universe_data) = <<>>

\* C28 as stated: a poll() that ends without a transport fault before its
\* 10th read attempt ended because that attempt found no complete message:
\* a complete message of another label does not end the drain.
C28_Original ==
    (pc = "polled" /\ polls > 0 /\ ~poll_fault /\ poll_i < MaxPacketsPerPoll) =>
       message.kind # "msg"

\* ---------------------------------------------------------------------
\* Properties of the colour transition
\* ---------------------------------------------------------------------

\* a frame in which the bank is on, so that update() is called
LitFrameStep == FrameStep /\ ~(pixel'.level.n <= 0)

GeneratedColors(color_shift) == {generate_fire_color(c, color_shift) : c \in ColorDraws}

\* C29: an update() at a time with elapsed >= duration makes the previous
\* target the current colour, generates a new target, sets the transition
\* start to the current time and draws a new duration; an update() with
\* elapsed < duration leaves current colour, target colour, start time and
\* duration as they were.
C29_TransitionStep ==
    [][LitFrameStep =>
          LET before == pixel.fire_pixel
              after == pixel'.fire_pixel
              current_time == pixel'.clock
              elapsed == current_time - before.transition_start_time
          IN  IF elapsed >= before.transition_duration
              THEN /\ after.current_color = before.target_color
                   /\ after.target_color \in GeneratedColors(pixel.bank.color_shift)
                   /\ after.transition_start_time = current_time
                   /\ after.transition_duration > 0
                   /\ after.rng_calls >= before.rng_calls + 3
              ELSE /\ after.current_color = before.current_color
                   /\ after.target_color = before.target_color
                   /\ after.transition_start_time = before.transition_start_time
                   /\ after.transition_duration = before.transition_duration]_vars

\* an update() exactly at elapsed = duration has started a new transition
\* from the first target, and a later update() has left it running
C29_Witness ==
    /\ pixel # <<>> /\ ~IsTwin
    /\ pixel.updates = 3
    /\ ~(pixel.level.n <= 0)
    /\ pixel.fire_pixel.transition_start_time = 8
    /\ pixel.clock = 9
    /\ pixel.fire_pixel.current_color # <<0, 0, 0>>
    /\ pixel.fire_pixel.transition_duration > 1

\* C30 as stated: in the update() in which a transition expires, the colour
\* interpolated before the intensity is applied is the previous target:
\* nothing of the way to the new target is shown yet.
C30_Original ==
    [][LitFrameStep =>
          LET before == pixel.fire_pixel
              elapsed == pixel'.clock - before.transition_start_time
          IN  elapsed >= before.transition_duration =>
                 pixel'.fire_pixel.lerped = before.target_color]_vars

\* ---------------------------------------------------------------------
\* One pixel of a lit bank whose wind parameter (sporadic_flicker) is
\* moved by the console between frames
\* ---------------------------------------------------------------------

\* channel 3 bytes either side of sporadic_flicker > 0.01
GustWinds == {2, 3}
GustSteps == {1, 4}
MaxGustUpdates == 4
WindDraws == {g \in GustDraws : g.duration < 16}

GustCreate ==
    /\ pixel = <<>>
    /\ \E seed \in {s \in PixelSeeds : s.duration = 60} :
       \E color \in {c \in ColorDraws : c.intensity = 6} :
       \E bank \in {b \in BenchBanks : b.flicker = 0} :
          pixel' = [fire_pixel |-> NewPixel([color |-> color] @@ seed, 0),
                    bank |-> [bank EXCEPT !.sporadic = 0],
                    level |-> FromByte(0), clock |-> 0, updates |-> 0,
                    written |-> <<0, 0, 0>>]
    /\ UNCHANGED <<decoder_vars, poll_vars, sched_vars, param_vars, output_vars>>
    /\ UNCHANGED <<aux_vars, smoother, probe, show, pacer>>

\* _update_from_dmx sets the wind parameter, FlameBank.update copies it
\* to the pixel and calls update(current_time)
GustFrame ==
    /\ pixel # <<>>
    /\ pixel.updates < MaxGustUpdates
    /\ \E step \in GustSteps : \E sporadic \in GustWinds :
       LET current_time == pixel.clock + step
           bank == [pixel.bank EXCEPT !.sporadic = sporadic]
           color == CHOOSE c \in ColorDraws : c.special = "white"
       IN  \E gust \in IF MayGust(bank, pixel.fire_pixel)
                        THEN {<<>>} \cup WindDraws ELSE {<<>>} :
              LET got == bank_update_pixel(bank, bank.intensity, pixel.fire_pixel,
                            current_time,
                            [color |-> color, duration |-> 100,
                             variation |-> 4, gust |-> gust])
              IN  pixel' = [pixel EXCEPT
                     !.fire_pixel = got.fire_pixel,
                     !.bank = bank,
                     !.level = bank.intensity,
                     !.clock = current_time,
                     !.updates = @ + 1,
                     !.written = ScaleColor(got.color, bank.master)]
    /\ UNCHANGED <<decoder_vars, poll_vars, sched_vars, param_vars, output_vars>>
    /\ UNCHANGED <<aux_vars, smoother, probe, show, pacer>>

NextGust == GustCreate \/ GustFrame

SpecGust == InitDecoder /\ [][NextGust]_vars

GustState(fire_pixel) ==
    <<fire_pixel.wind_gust_start_time, fire_pixel.wind_gust_duration,
      fire_pixel.wind_gust_intensity>>

\* the update() of this step drew a new gust
GustDrawn == pixel'.fire_pixel.wind_gust_start_time = pixel'.clock

\* C31 as stated: a gust is drawn only with no gust active and the wind
\* above 0.01; an active gust keeps its start, duration and trough; once
\* the gust's elapsed time has reached its duration the active flag is
\* cleared and the multiplier is 1.0; with the wind at or below 0.01 the
\* multiplier is 1.0.
C31_Original ==
    [][FrameStep =>
          LET before == pixel.fire_pixel
              after == pixel'.fire_pixel
              wind == pixel'.bank.sporadic
          IN  /\ GustDrawn => (~before.wind_gust_active /\ 100 * wind > 255)
              /\ before.wind_gust_active => GustState(after) = GustState(before)
              /\ (before.wind_gust_active
                    /\ pixel'.clock - before.wind_gust_start_time
                          >= before.wind_gust_duration) =>
                    (~after.wind_gust_active /\ after.wind = One)
              /\ 100 * wind <= 255 => after.wind = One]_vars

\* C31, amended: the active flag is cleared, with the multiplier at 1.0, in
\* the first update() with the wind above 0.01 in which the gust's elapsed
\* time has reached its duration; an update() with the wind at or below
\* 0.01 leaves the whole gust state, the flag included, as it was and has
\* the multiplier 1.0.  The other parts are as stated.
C31_GustMachine ==
    [][FrameStep =>
          LET before == pixel.fire_pixel
              after == pixel'.fire_pixel
              wind == pixel'.bank.sporadic
          IN  /\ GustDrawn => (~before.wind_gust_active /\ 100 * wind > 255)
              /\ before.wind_gust_active => GustState(after) = GustState(before)
              /\ (100 * wind > 255 /\ before.wind_gust_active
                    /\ pixel'.clock - before.wind_gust_start_time
                          >= before.wind_gust_duration) =>
                    (~after.wind_gust_active /\ after.wind = One)
              /\ 100 * wind <= 255 =>
                    /\ after.wind = One
                    /\ GustState(after) = GustState(before)
                    /\ after.wind_gust_active = before.wind_gust_active
                    /\ after.rng_calls = before.rng_calls]_vars

\* a second gust is running, drawn after the first one was over and its
\* flag cleared
C31_Witness ==
    /\ pixel # <<>> /\ ~IsTwin
    /\ pixel.bank.sporadic = 3
    /\ pixel.fire_pixel.in_gust
    /\ pixel.fire_pixel.wind_gust_start_time > 4
    /\ pixel.fire_pixel.rng_calls >= 9 + 2 * 3 + 1
    /\ pixel.fire_pixel.wind # One

\* ---------------------------------------------------------------------
\* Properties of a scheduler iteration
\* ---------------------------------------------------------------------

ParamsOfChannels ==
    [flicker_intensity |-> FromByte(dmx_data[1]),
     color_shift |-> FromByte(dmx_data[2]),
     sporadic_flicker |-> FromByte(dmx_data[3])]

\* parameters, bank and master targets are those of the Channel Array as
\* the iteration's poll left it, the same for every bank
ParamsCurrent ==
    /\ global_params = ParamsOfChannels
    /\ ~ExceedsHysteresis(dmx_data[6], target_master_intensity)
    /\ \A b \in BankIds :
          /\ flame_banks[b].flicker_intensity = global_params.flicker_intensity
          /\ flame_banks[b].color_shift = global_params.color_shift
          /\ flame_banks[b].sporadic_flicker = global_params.sporadic_flicker
          /\ ~ExceedsHysteresis(dmx_data[7 + b], flame_banks[b].target_intensity)

\* what the banks returned is made with the intensities just computed, and
\* the transport holds the multiplexed buffers
FrameCurrent ==
    /\ sender_data = universe_data
    /\ \A b \in BankIds : \A p \in PixelsOfBank[b] :
          pixel_colors[b][p] \in
             IF flame_banks[b].intensity.n <= 0 THEN {<<0, 0, 0>>}
             ELSE {ScaleColor(SynthColors[i], flame_banks[b].intensity) : i \in SynthDraws}

\* the places of one iteration follow each other in the order of run()
IterationOrder ==
    /\ pc' = "polling" => pc \in {"polling", "loop_top"}
    /\ pc' = "polled" => pc \in {"polled", "polling"}
    /\ pc' = "render" => pc \in {"render", "polled"}
    /\ pc' = "pace" => pc \in {"pace", "render"}
    /\ pc' = "loop_top" => pc \in {"loop_top", "pace", "idle"}
    \* the Channel Array moves during the poll only
    /\ dmx_data' # dmx_data => pc = "polling"

\* C32: an iteration goes through poll, parameter update, synthesis with
\* multiplexing and transmission, and pacing in this order; what is
\* synthesized in a frame uses parameters computed from the Channel Array
\* as that frame's poll left it, and every bank has the same flicker,
\* colour-shift and wind values (the master is one value for all pixels).
C32_IterationOrder ==
    /\ [](pc \in {"render", "pace"} => ParamsCurrent)
    /\ [](pc = "pace" => FrameCurrent)
    /\ [][IterationOrder]_vars

\* a second frame rendered with the parameters of a look that arrived
\* during its own poll
C32_Witness ==
    /\ pc = "pace"
    /\ frame_count = 1
    /\ packet_count = 1
    /\ packets_received = 1
    /\ global_params.flicker_intensity = FromByte(128)
    /\ flame_banks[0].intensity.n > 0
    /\ \E p \in PixelsOfBank[0] : pixel_colors[0][p] # <<0, 0, 0>>

\* C33 as stated: the duration of a transition to a flash colour lies in
\* [0.1, 0.25] s, that of any other transition in [0.05, 5.0] s (a bucket
\* draw times 2.0 - flicker), so the duration is positive in every state
\* (durations are in units of 25 ms).
C33_Original ==
    (pixel # <<>> /\ ~IsTwin) =>
       LET p == pixel.fire_pixel
       IN  /\ p.transition_duration > 0
           /\ IF p.target_color = WhiteHot \/ p.target_color = BlueFlame
              THEN 4 <= p.transition_duration /\ p.transition_duration <= 10
              ELSE 2 <= p.transition_duration /\ p.transition_duration <= 200

\* ---------------------------------------------------------------------
\* The two hysteresis tests side by side: a bank (dmx_fire_controller.py)
\* and the colour finder's red channel (color_finder.py) given the same
\* raw bytes.  The bank's target_intensity is its byte over 255.
\* ---------------------------------------------------------------------

\* a test that lets a change of 5 through
ExceedsByteHysteresis_five(dmx_value, target_byte) == Abs(dmx_value - target_byte) > 5 - 1

\* abs(dmx_red - self.target_red) > 5
ExceedsByteHysteresis(dmx_value, target_byte) == Abs(dmx_value - target_byte) > 5

\* FlameBank.__init__: target_intensity = 0.0; ColorFinder.__init__:
\* target_red = 0
FinderStart ==
    /\ smoother = <<>>
    /\ smoother' = [target_intensity |-> 0, target_red |-> 0, raw |-> 0,
                    bank_took |-> FALSE, finder_took |-> FALSE, updates |-> 0]
    /\ UNCHANGED <<decoder_vars, poll_vars, sched_vars, param_vars, output_vars>>
    /\ UNCHANGED <<aux_vars, probe, pixel, show, pacer>>

\* one raw byte given to FlameBank.set_intensity and to
\* ColorFinder._update_from_dmx
FinderUpdate ==
    /\ smoother # <<>>
    /\ \E dmx_value \in Byte :
       LET bank_took == ExceedsHysteresis(dmx_value, smoother.target_intensity)
           finder_took == ExceedsByteHysteresis(dmx_value, smoother.target_red)
       IN  smoother' = [target_intensity |-> IF bank_took THEN dmx_value
                                             ELSE smoother.target_intensity,
                        target_red |-> IF finder_took THEN dmx_value
                                       ELSE smoother.target_red,
                        raw |-> dmx_value,
                        bank_took |-> bank_took, finder_took |-> finder_took,
                        updates |-> 1]
    /\ UNCHANGED <<decoder_vars, poll_vars, sched_vars, param_vars, output_vars>>
    /\ UNCHANGED <<aux_vars, probe, pixel, show, pacer>>

NextFinder == FinderStart \/ FinderUpdate

SpecFinder == InitDecoder /\ [][NextFinder]_vars

\* C34: for every previous target byte and every new raw byte the
\* normalized test of the banks and the byte test of the colour finder take
\* the change together or leave it together, so the two targets stay the
\* same byte.
C34_HysteresisAgree ==
    smoother # <<>> =>
       /\ smoother.bank_took = smoother.finder_took
       /\ smoother.target_intensity = smoother.target_red

\* the two tests have both let a change of 6 through and have both
\* refused a change of 5
C34_Witness ==
    /\ smoother # <<>>
    /\ smoother.updates = 1
    /\ smoother.target_red = 100
    /\ smoother.raw = 105
    /\ ~smoother.bank_took /\ ~smoother.finder_took

\* ---------------------------------------------------------------------
\* Properties of the smoothed intensities
\* ---------------------------------------------------------------------

\* x <= y for parameter values
ValueLeq(x, y) == x.n * Pow10(y.k) <= y.n * Pow10(x.k)
InUnit(x) == ValueLeq(FromByte(0), x) /\ ValueLeq(x, FromByte(255))
ValueBetween(x, a, b) ==
    \/ ValueLeq(a, x) /\ ValueLeq(x, b)
    \/ ValueLeq(b, x) /\ ValueLeq(x, a)

\* one smoothed parameter after an update with raw byte v
SmoothedWithin(new, old, target_byte, v) ==
    /\ InUnit(new)
    /\ ValueBetween(new, old, FromByte(target_byte))
    /\ 50 * Abs(v - target_byte) <= 255

\* C35: after every update of a bank intensity or of the master intensity
\* the smoothed value lies in [0, 1] and between its previous value and the
\* target, never beyond the target, and the target is within 0.02 of the
\* latest raw byte over 255.
C35_SmoothedBounded ==
    [][UpdateStep =>
          /\ \A b \in BankIds :
                SmoothedWithin(flame_banks'[b].intensity, flame_banks[b].intensity,
                               flame_banks'[b].target_intensity, get_channel(7 + b))
          /\ SmoothedWithin(master_intensity', master_intensity,
                            target_master_intensity', get_channel(6))]_vars

\* after a second update bank 1 is strictly between zero and its target,
\* the master strictly between its target and one, and both raw bytes sit
\* inside the band off their targets
C35_Witness ==
    /\ pc = "render"
    /\ polls = 2
    /\ get_channel(7) # flame_banks[0].target_intensity
    /\ get_channel(6) # target_master_intensity
    /\ flame_banks[0].intensity.n > 0
    /\ ~ValueLeq(FromByte(flame_banks[0].target_intensity), flame_banks[0].intensity)
    /\ ~ValueLeq(master_intensity, FromByte(target_master_intensity))
    /\ ~ValueLeq(FromByte(255), master_intensity)

\* ---------------------------------------------------------------------
\* Properties of the channel store across messages
\* ---------------------------------------------------------------------

\* C36: an accepted received-DMX message with N channel bytes overwrites
\* channels 1..min(N, 512) and nothing else: the channels after N keep what
\* earlier messages left, and the bytes after the 512th change no state
\* (the array keeps its 512 entries, the message counts once).
C36_PartialOverwrite ==
    [][(PollStep /\ Accepted(message')) =>
          LET n == Len(message'.data) - 2
          IN  /\ DOMAIN dmx_data' = 1..512
              /\ \A i \in 1..512 :
                    dmx_data'[i] = IF i <= n THEN message'.data[i + 2] ELSE dmx_data[i]
              /\ packet_count' = packet_count + 1
              /\ last_status' = message'.data[1]]_vars

\* a message of more than 512 channels, then one of two channels: channels
\* 1 and 2 are the short message's, channels 3 and 512 still the long one's
C36_Witness ==
    /\ Accepted(message)
    /\ message.data = <<0, 0, 16, 32>>
    /\ packet_count = 2
    /\ dmx_data[1] = 16 /\ dmx_data[2] = 32
    /\ dmx_data[3] = 4
    /\ dmx_data[512] = (512 % 250) + 1

\* ---------------------------------------------------------------------
\* Properties of the frames before the first packet
\* ---------------------------------------------------------------------

\* C37: as long as no received-DMX packet has been decoded the Channel
\* Array is all zeros, every bank's intensity and target are exactly 0, and
\* every universe buffer and everything handed to the transport is all
\* zeros, however many frames have been rendered.
C37_DarkBeforeFirstPacket ==
    packet_count = 0 =>
       /\ \A i \in 1..512 : dmx_data[i] = 0
       /\ \A b \in BankIds :
             /\ flame_banks[b].intensity = FromByte(0)
             /\ flame_banks[b].target_intensity = 0
             /\ \A p \in DOMAIN pixel_colors[b] : pixel_colors[b][p] = <<0, 0, 0>>
       /\ \A u \in DOMAIN universe_data : universe_data[u] = ZeroFrame
       /\ \A u \in DOMAIN sender_data : sender_data[u] = ZeroFrame

\* two frames rendered and sent with no packet decoded; the master, at
\* channel 6 = 0, has started to fade
C37_Witness ==
    /\ packet_count = 0
    /\ frame_count = 1
    /\ pc = "pace"
    /\ total_pixels = TOTAL_PIXELS
    /\ target_master_intensity = 0
    /\ master_intensity # FromByte(255)
    /\ master_intensity.n > 0

\* ---------------------------------------------------------------------
\* Dual unicast: the destinations given to the output universes at setup,
\* for a configurable first universe, and the universe a bank's pixel is
\* written to (every pixel burns, PIXEL_SPACING = 1)
\* ---------------------------------------------------------------------

\* config.WLED_UNIVERSE_START
RouteStarts == {1, 2, 3, 7}

RouteBegin ==
    /\ probe = <<>>
    /\ \E start \in RouteStarts :
          probe' = [output_universe_start |-> start, i |-> 0, destination |-> <<>>,
                    bank_id |-> -1, pixel_idx |-> -1, univ |-> -1]
    /\ UNCHANGED <<decoder_vars, poll_vars, sched_vars, param_vars, output_vars>>
    /\ UNCHANGED <<aux_vars, smoother, pixel, show, pacer>>

\* one turn of `for i in range(self.num_universes)` with output_ip_two set
\* and use_multicast False
activate_output ==
    /\ probe # <<>>
    /\ "destination" \in DOMAIN probe
    /\ probe.i < NumUniverses(total_pixels)
    /\ LET univ == probe.output_universe_start + probe.i
       IN  probe' = [probe EXCEPT
                        !.i = @ + 1,
                        !.destination = (univ :> (IF univ >= 7 THEN "two" ELSE "one")) @@ @]
    /\ UNCHANGED <<decoder_vars, poll_vars, sched_vars, param_vars, output_vars>>
    /\ UNCHANGED <<aux_vars, smoother, pixel, show, pacer>>

\* the universe _render_frame computes for one pixel of one bank
RoutePixel ==
    /\ probe # <<>>
    /\ "destination" \in DOMAIN probe
    /\ probe.i = NumUniverses(total_pixels)
    /\ probe.pixel_idx = -1
    /\ \E b \in BankIds : \E p \in PixelIndices(b, 1) :
          probe' = [probe EXCEPT
                       !.bank_id = b, !.pixel_idx = p,
                       !.univ = probe.output_universe_start + p \div LedsPerUniverse]
    /\ UNCHANGED <<decoder_vars, poll_vars, sched_vars, param_vars, output_vars>>
    /\ UNCHANGED <<aux_vars, smoother, pixel, show, pacer>>

NextRoute == RouteBegin \/ activate_output \/ RoutePixel

SpecRoute == InitDecoder /\ [][NextRoute]_vars

\* C38 as stated: whatever the first universe is, the universe a pixel of
\* banks 1-7 is written to goes to the first destination and the universe
\* a pixel of banks 8-13 is written to goes to the second.
C38_Original ==
    (probe # <<>> /\ "destination" \in DOMAIN probe /\ probe.pixel_idx >= 0) =>
       /\ probe.univ \in DOMAIN probe.destination
       /\ probe.destination[probe.univ] = IF probe.bank_id < 7 THEN "one" ELSE "two"

\* ---------------------------------------------------------------------
\* Resynchronisation: the port holds a run of stray bytes followed by one
\* whole received-DMX message, nothing more arrives, and poll() is called
\* for ever (the frame loop calls it once a frame)
\* ---------------------------------------------------------------------

\* stray bytes: line noise without a start byte, of lengths around the
\* five-byte scan, and tails of a message cut off by a read timeout
\* (channel values, one of them 126, and the end delimiter)
GarbageRuns ==
    {<<1>>, <<1, 2, 3>>, <<1, 2, 3, 4, 5>>, <<1, 2, 3, 4, 5, 6>>,
     <<1, 2, 3, 4, 5, 6, 7, 8, 9, 10, 11>>,
     <<77, 231>>, <<77, 88, 99, 231>>,
     <<126>>, <<126, 231>>, <<9, 126, 9>>,
     <<126, 5, 2, 0>>, <<126, 5, 255, 255>>}

\* [0x7E][0x05][len LE][status 0][start code 0][channels][0xE7]
ResyncFrames ==
    {<<126, 5, 4, 0, 0, 0, 16, 32, 231>>,
     <<126, 5, 5, 0, 0, 0, 48, 64, 80, 231>>}

ResyncLoad ==
    /\ pc = "idle"
    /\ probe = <<>>
    /\ rx = <<>>
    /\ \E garbage \in GarbageRuns : \E frame \in ResyncFrames :
          /\ rx' = garbage \o frame
          /\ probe' = [garbage |-> garbage, frame |-> frame]
    /\ UNCHANGED <<port_open, dmx_data, packet_count, last_status, last_packet_time>>
    /\ UNCHANGED <<poll_vars, sched_vars, param_vars, output_vars, aux_vars>>
    /\ UNCHANGED <<smoother, pixel, show, pacer>>

\* poll() called once more: packets_received = 0 and the loop is entered
ResyncPoll ==
    /\ pc \in {"idle", "polled"}
    /\ probe # <<>>
    /\ "frame" \in DOMAIN probe
    /\ poll_i' = 0
    /\ packets_received' = 0
    /\ poll_rx0' = rx
    /\ poll_arrived' = FALSE
    /\ poll_count0' = packet_count
    /\ poll_reads' = 0
    /\ poll_fault' = FALSE
    /\ pc' = "polling"
    /\ UNCHANGED <<decoder_vars, message, now, frame_start, frame_count, running>>
    /\ UNCHANGED <<param_vars, output_vars, arrivals, faults, polls, exits>>
    /\ UNCHANGED bench_vars

NextResync == ResyncLoad \/ ResyncPoll \/ PollMessage \/ PollBreak

\* the caller never stops polling, and a poll() that was entered runs on
SpecResync ==
    /\ InitDecoder
    /\ [][NextResync]_vars
    /\ WF_vars(ResyncPoll)
    /\ WF_vars(PollMessage)
    /\ WF_vars(PollBreak)

ResyncLoaded == probe # <<>> /\ "frame" \in DOMAIN probe
\* the channels of the loaded message are in the channel store
ResyncApplied ==
    /\ ResyncLoaded
    /\ packet_count >= 1
    /\ \A i \in 1..(Len(probe.frame) - 7) : dmx_data[i] = probe.frame[i + 6]

\* C39 as stated: stray bytes followed by a well-formed received-DMX
\* message are always followed, under repeated poll() calls, by a state in
\* which that message has been decoded and its channels applied.
C39_Original == ResyncLoaded ~> ResyncApplied

\* the same for stray bytes that hold no start byte: these are skipped
\* five at a call and the message behind them is decoded
ResyncWithoutStartByte ==
    (ResyncLoaded /\ \A i \in 1..Len(probe.garbage) : probe.garbage[i] # START_DELIMITER)
        ~> ResyncApplied

\* ---------------------------------------------------------------------
\* FireShowControl.stop() against the render thread.  The main thread runs
\* stop() while the render thread is anywhere in _render_loop; each
\* statement of stop() is a step.  join(timeout=2.0) returns when the
\* render thread has ended or when the two seconds are over, and stop()
\* does not look which of the two it was.  The banks keep the levels of
\* the last control packet; none arrives during the stop.
\* ---------------------------------------------------------------------

\* the show as start() leaves it, the banks set by one control packet
ShowRunning ==
    /\ show = <<>>
    /\ \E data \in ShowPackets :
          show' = [intensity |-> [b \in ShowBanks |-> data[b + 1]],
                   running |-> TRUE,
                   render_pc |-> "top", bank |-> 0, idx |-> 1, channel |-> 1,
                   pixel_colors |-> <<>>, universe_data |-> <<>>, sent |-> <<>>,
                   callback_pc |-> "idle", dmx_data |-> data, i |-> 4,
                   reads |-> [b \in ShowBanks |-> <<>>],
                   frame_count |-> 0, packets |-> 1,
                   stop_pc |-> "idle", joined |-> FALSE]
    /\ UNCHANGED <<decoder_vars, poll_vars, sched_vars, param_vars, output_vars>>
    /\ UNCHANGED <<aux_vars, smoother, probe, pixel, pacer>>

IsStopBench == show # <<>> /\ "stop_pc" \in DOMAIN show

\* `while self.running` is false: _render_loop returns, the thread ends
render_loop_exit ==
    /\ IsStopBench /\ show.render_pc = "top" /\ ~show.running
    /\ ShowStep([show EXCEPT !.render_pc = "done"])

\* self.running = False
show_stop ==
    /\ IsStopBench /\ show.stop_pc = "idle"
    /\ ShowStep([show EXCEPT !.running = FALSE, !.stop_pc = "join"])

\* self.render_thread.join(timeout=2.0) returns: the thread has ended
show_stop_joined ==
    /\ IsStopBench /\ show.stop_pc = "join" /\ show.render_pc = "done"
    /\ ShowStep([show EXCEPT !.joined = TRUE, !.stop_pc = "off"])

\* self.render_thread.join(timeout=2.0) returns: two seconds have passed
\* and the thread is still in its frame
show_stop_timeout ==
    /\ IsStopBench /\ show.stop_pc = "join" /\ show.render_pc # "done"
    /\ ShowStep([show EXCEPT !.stop_pc = "off"])

\* self.sender[univ].dmx_data = [0] * 512 for every universe, then
\* sender.stop() and receiver.stop()
show_stop_off ==
    /\ IsStopBench /\ show.stop_pc = "off"
    /\ ShowStep([show EXCEPT !.sent = <<>>, !.stop_pc = "stopped"])

NextStop ==
    \/ ShowRunning
    \/ render_loop_top \/ show_bank_update \/ show_scale \/ show_send
    \/ render_loop_exit
    \/ show_stop \/ show_stop_joined \/ show_stop_timeout \/ show_stop_off

SpecStop == InitDecoder /\ [][NextStop]_vars

\* no pixel of the data last assigned to the outputs is lit
ShowDark == \A k \in DOMAIN show.sent : show.sent[k] = <<0, 0, 0>>

\* C40 as stated: once stop() has written the zero frames, the data last
\* assigned to the output universes is all zero, wherever the render
\* thread was in its frame when stop() was called.
C40_Original == (IsStopBench /\ show.stop_pc = "stopped") => ShowDark

\* the same when join() returned because the render thread had ended
StopDarkWhenJoined ==
    (IsStopBench /\ show.stop_pc = "stopped" /\ show.joined) => ShowDark

====
